---- MODULE Spec2Model ----
(***************************************************************************)
(* A model of the measurement engine of cloudflare-speed-cli:              *)
(*   - TestEngine::run (src/engine/mod.rs): phase orchestration, the       *)
(*     control listener and the shared paused / cancel flags;              *)
(*   - run_latency_probes (src/engine/latency.rs);                         *)
(*   - run_download_with_loaded_latency / run_upload_with_loaded_latency   *)
(*     (src/engine/throughput.rs): workers, sampler, steady-state window.  *)
(* All times are in milliseconds.                                          *)
(***************************************************************************)
EXTENDS Integers, Sequences, FiniteSets, TLC

(* ------------------------------ bounds -------------------------------- *)
\* cfg.concurrency: the number of transfer workers of a throughput phase
Concurrency == 2
\* the phase durations of the configuration, in sampler intervals
PhaseTicks == 1
\* capacity of the control channel
CtlCap == 1
\* capacity of the event channel
EvCap == 1
\* chunk additions to the shared byte counter in one throughput phase
MaxAdds == 1
\* the same, when every worker of the phase is followed step by step
MaxChunks == 2
\* tick samples handed to the estimator on its own
MaxSamples == 4
\* probe attempts handed to the latency statistics on their own
MaxProbes == 3
\* datagrams queued on the socket of the STUN loss probe
MaxInbox == 2

(* ------------------------- program constants -------------------------- *)
\* tokio::time::sleep(Duration::from_millis(200)) of the sampling loop
SampleIntervalMs == 200
\* attempts of the STUN loss probe
StunAttempts == 50
\* Duration::from_secs(1), the floor of the ramp-up cutoff
RampFloorMs == 1000
\* the smallest steady window, dt.as_millis() < 200
MinWindowMs == 200
UPLOAD_CHUNK_SIZE == 64 * 1024
\* Histogram::<u64>::new_with_bounds(1, 60_000_000, 3): the highest value to
\* track, and the values kept exactly for three significant digits (2 * 10^3
\* rounded up to a power of two)
HighestTrackableUs == 60000000
SubBucketCount == 2048

(* --------------------------- configuration ---------------------------- *)
\* the clock advances in steps of one sampler interval
ClockStep == SampleIntervalMs
\* the RunConfig of the run
idle_latency_duration == (PhaseTicks + 1) * ClockStep
download_duration == PhaseTicks * ClockStep
upload_duration == PhaseTicks * ClockStep
probe_interval_ms == ClockStep
upload_bytes_per_req == 2 * UPLOAD_CHUNK_SIZE
\* The experimental mode is on.  With it off run() does what it does here
\* when fetch_turn fails, less the Info event after the idle phase.
experimental == TRUE
\* round-trip times a successful probe may measure, and download chunk sizes
RttMs == {20}
ChunkLens == {1500}

Phases == <<"IdleLatency", "Download", "Upload", "Summary">>
\* Option<T>: None, Some(x)
None == <<>>
Some(x) == <<x>>

Max(a, b) == IF a >= b THEN a ELSE b
Min(a, b) == IF a <= b THEN a ELSE b
Range(s) == {s[i] : i \in DOMAIN s}
\* u64::saturating_sub
saturating_sub(a, b) == IF a >= b THEN a - b ELSE 0

VARIABLES
    pc,          \* where TestEngine::run is
    phase,       \* the phase run() is in
    result,      \* what run() returned: "running", "Ok" or "Err"
    meta,        \* the service metadata still to be announced: "unknown"
                 \* before the fetches, "resolved" while Some(m) awaits its
                 \* MetaInfo event, "settled" after (announced, or None)
    paused,      \* the shared AtomicBool paused
    cancel,      \* the shared AtomicBool cancel
    listener,    \* the control listener task
    ctl,         \* the control channel
    ctlOpen,     \* the control sender is still alive
    evq,         \* events queued in the event channel
    rxAlive,     \* the event receiver is still alive
    now,         \* the clock, relative to the start of the phase
    lat,         \* the latency prober of the phase (run_latency_probes)
    wk,          \* the transfer workers of the phase
    total,       \* the shared AtomicU64 byte counter of the phase
    adds,        \* chunk additions made to total in this phase
    stop,        \* the per-phase stop flag
    samp,        \* the sampling loop's locals, and the ticks it has emitted
    tput,        \* the throughput summary of the phase, or None
    phaseLog,    \* the PhaseStarted events emitted, in order
    stunSent,    \* attempts made by the STUN loss probe
    udp,         \* the STUN loss probe: its locals and its socket
    cfg,         \* the RunConfig of the run, as CloudflareClient::new sees it
    ui,          \* the front end: "loop" while it takes events and keys,
                 \* "await" while it awaits the engine task it cancelled,
                 \* "restarted" after
    tr,          \* run_traceroute: its locals, the hops and events so far
    cancelAtSpawn  \* cancel was already set when the phase's workers were spawned

vars == <<pc, phase, result, meta, paused, cancel, listener, ctl, ctlOpen, evq, rxAlive, now, lat, wk, total, adds, stop, samp,
          tput, phaseLog, stunSent, udp, cfg, ui, tr, cancelAtSpawn>>

ctlVars == <<paused, cancel, listener, ctl, ctlOpen>>
evVars == <<evq, rxAlive>>
runVars == <<pc, phase, result, meta, phaseLog, stunSent, udp, cfg, ui, tr>>
tpVars == <<wk, total, adds, stop, samp, tput, cancelAtSpawn>>

(* ------------------------------ channels ------------------------------ *)
\* The event consumer and the control listener keep up with the run: a queued
\* event is taken, and a queued control message handled, before the engine's
\* next step.  (A message handled late is a message sent late; the event
\* channel holds 1024 to 4096 events.)
Urgent ==
    \/ rxAlive /\ evq > 0 /\ ui = "loop"
    \/ listener = "running" /\ ctl # <<>>
Quiet == ~Urgent

\* mpsc::Sender::send(..).await: waits for capacity while the receiver is
\* alive, and returns Err at once (discarded by .ok()) when it is gone.
CanSend == ~rxAlive \/ evq < EvCap
\* a channel that keeps what is sent after its receiver is gone
Push_Keep(q) == q + 1
Push(q) == IF rxAlive THEN q + 1 ELSE q

\* the consumer takes one event
EvRecv ==
    /\ ui = "loop"
    /\ rxAlive /\ evq > 0
    /\ evq' = evq - 1
    /\ UNCHANGED <<rxAlive, now, lat>>
    /\ UNCHANGED <<ctlVars, runVars, tpVars>>

\* the consumer drops the receiver: the CLI's JSON mode does so as it creates
\* the channel, the other front ends when they leave their event loop
EvDrop ==
    /\ Quiet
    /\ rxAlive
    /\ rxAlive' = FALSE
    /\ UNCHANGED <<evq, now, lat>>
    /\ UNCHANGED <<ctlVars, runVars, tpVars>>

(* -------------------------- control channel --------------------------- *)
ControlMsgs == {"Pause(true)", "Pause(false)", "Cancel"}

\* ctrl_tx.send(m).await.ok(): waits for capacity; control_rx is dropped when
\* the listener ends, and a send then fails and is ignored
UserSend(m) ==
    /\ Quiet
    /\ ctlOpen
    /\ IF listener \in {"exited", "aborted"}
       THEN UNCHANGED ctl
       ELSE Len(ctl) < CtlCap /\ ctl' = Append(ctl, m)
    /\ UNCHANGED <<paused, cancel, listener, ctlOpen, now, lat>>
    /\ UNCHANGED <<evVars, runVars, tpVars>>

UserClose ==
    /\ Quiet
    /\ ctlOpen
    /\ ctlOpen' = FALSE
    /\ UNCHANGED <<paused, cancel, listener, ctl, now, lat>>
    /\ UNCHANGED <<evVars, runVars, tpVars>>

\* a listener that goes on receiving after Cancel
HandleControl_NoBreak(msg, p, c) ==
    CASE msg = "Pause(true)" -> <<TRUE, c, FALSE>>
      [] msg = "Pause(false)" -> <<FALSE, c, FALSE>>
      [] msg = "Cancel" -> <<p, TRUE, FALSE>>

\* the flags after the listener has handled msg: <<paused, cancel, break>>
HandleControl(msg, p, c) ==
    CASE msg = "Pause(true)" -> <<TRUE, c, FALSE>>
      [] msg = "Pause(false)" -> <<FALSE, c, FALSE>>
      [] msg = "Cancel" -> <<p, TRUE, TRUE>>

\* while let Some(msg) = control_rx.recv().await { .. }
ListenerRecv ==
    /\ listener = "running" /\ ctl # <<>>
    /\ LET h == HandleControl(Head(ctl), paused, cancel) IN
         /\ paused' = h[1]
         /\ cancel' = h[2]
         /\ listener' = IF h[3] THEN "exited" ELSE "running"
         /\ ctl' = IF h[3] THEN <<>> ELSE Tail(ctl)
    /\ UNCHANGED <<ctlOpen, now, lat>>
    /\ UNCHANGED <<evVars, runVars, tpVars>>

\* a listener that takes the closing of the control sender for a Cancel
AfterClosed_Cancels(c) == TRUE
\* the cancel flag when `while let Some(msg)` ends on None: nothing is stored
AfterClosed(c) == c

\* recv() returns None once every sender is gone and the queue is empty
ListenerClosed ==
    /\ Quiet
    /\ listener = "running" /\ ctl = <<>> /\ ~ctlOpen
    /\ listener' = "exited"
    /\ cancel' = AfterClosed(cancel)
    /\ UNCHANGED <<paused, ctl, ctlOpen, now, lat>>
    /\ UNCHANGED <<evVars, runVars, tpVars>>

(* ----------------------------- statistics ----------------------------- *)
\* a clamp that lets every value through
ClampUs_Unclamped(ms) == ms * 1000

\* (ms * 1000.0).round().clamp(1.0, 60_000_000.0) as u64
ClampUs(ms) == Min(Max(ms * 1000, 1), 60000000)

SeqMin(s) == CHOOSE x \in Range(s) : \A y \in Range(s) : x <= y
SeqMax(s) == CHOOSE x \in Range(s) : \A y \in Range(s) : x >= y

\* OnlineStats::stddev: defined from the second pushed sample on
stddev_defined(n) == n >= 2

\* The histogram keeps a count per bucket.  Values below SubBucketCount have a
\* bucket each; from there on the width of the buckets doubles with every
\* doubling of the value.
RECURSIVE BucketWidth(_)
BucketWidth(v) == IF v < SubBucketCount THEN 1 ELSE 2 * BucketWidth(v \div 2)
lowest_equivalent(v) == v - (v % BucketWidth(v))
highest_equivalent(v) == lowest_equivalent(v) + BucketWidth(v) - 1

\* the first value beyond the buckets allocated to cover HighestTrackableUs
RECURSIVE SmallestUntrackable(_)
SmallestUntrackable(limit) ==
    IF limit > HighestTrackableUs THEN limit ELSE SmallestUntrackable(2 * limit)

\* h.record(us) is Ok (the histogram does not resize)
RecordOk(us) == us < SmallestUntrackable(SubBucketCount)

\* the values the histogram holds after: for &ms in samples_ms {
\*     let us = ..; let _ = h.record(us); }
Recorded(samples_ms) ==
    SelectSeq([i \in DOMAIN samples_ms |-> ClampUs(samples_ms[i])], RecordOk)

\* a histogram whose max() is the lowest value of the highest bucket
hist_max_Lowest(vals) ==
    IF vals = <<>> THEN 0 ELSE lowest_equivalent(SeqMax(vals))

\* h.min(), h.max(): 0 for an empty histogram
hist_min(vals) == IF vals = <<>> THEN 0 ELSE lowest_equivalent(SeqMin(vals))
hist_max(vals) == IF vals = <<>> THEN 0 ELSE highest_equivalent(SeqMax(vals))

\* h.value_at_quantile(num / den): the top of the first bucket at which the
\* running count reaches ceil(quantile * total), at least 1
value_at_quantile(vals, num, den) ==
    IF vals = <<>> THEN 0
    ELSE LET count == Max((num * Len(vals) + den - 1) \div den, 1)
             reach == {v \in Range(vals) :
                         Cardinality({i \in DOMAIN vals :
                             vals[i] <= highest_equivalent(v)}) >= count}
         IN highest_equivalent(CHOOSE v \in reach : \A w \in reach : v <= w)

\* a loss ratio computed without the sent == 0 case
LossOf_Divide(sent, received) == <<sent - received, sent>>

\* the loss ratio, as the fraction <<numerator, denominator>>
LossOf(sent, received) ==
    IF sent = 0 THEN <<0, 1>> ELSE <<sent - received, sent>>

\* latency_summary_from_samples(sent, received, samples_ms, jitter_ms)
latency_summary_from_samples(sent, received, samples_ms) ==
    LET h == Recorded(samples_ms)
        empty == samples_ms = <<>>
    IN
    [ sent |-> sent,
      received |-> received,
      loss |-> LossOf(sent, received),
      n |-> Len(samples_ms),
      min_us |-> IF empty THEN None ELSE Some(hist_min(h)),
      p50_us |-> IF empty THEN None ELSE Some(value_at_quantile(h, 50, 100)),
      p90_us |-> IF empty THEN None ELSE Some(value_at_quantile(h, 90, 100)),
      p99_us |-> IF empty THEN None ELSE Some(value_at_quantile(h, 99, 100)),
      max_us |-> IF empty THEN None ELSE Some(hist_max(h)),
      jitter |-> stddev_defined(Len(samples_ms)) ]

(* --------------------------- latency prober --------------------------- *)
PhaseDuration(p) ==
    CASE p = "IdleLatency" -> cfg.idle_latency_duration
      [] p = "Download" -> cfg.download_duration
      [] p = "Upload" -> cfg.upload_duration
      [] OTHER -> 0

\* no prober is running
NoProber ==
    [ phase |-> "off", pc |-> "off", start |-> 0, sent |-> 0, received |-> 0,
      samples |-> <<>>, evOk |-> 0, evFail |-> 0, lastOk |-> FALSE,
      metaSent |-> FALSE, wake |-> 0, summary |-> None ]

\* the locals of run_latency_probes on entry; start = Instant::now()
NewProber(p, t) == [NoProber EXCEPT !.phase = p, !.pc = "top", !.start = t]

\* a loop that does not look at the paused flag
PauseWait_Never(p, c) == FALSE

\* a loop that does not end while the run is paused
BeforeDeadline_OrPaused(elapsed, duration) == elapsed < duration \/ paused

\* while start.elapsed() < total_duration: the test of the prober's loop and
\* of both sampling loops, made before the pause wait of each pass
BeforeDeadline(elapsed, duration) == elapsed < duration

\* a wait that only a Pause(false) ends
PauseWait_UntilResumed(p, c) == p

\* the loop condition of wait_if_paused_or_cancelled and of the samplers
PauseWait(p, c) == p /\ ~c

\* what the caller does with the value wait_if_paused_or_cancelled returns
BreakOnCancel(c) == c

\* the other variables a step of the prober leaves alone
LatFrame ==
    /\ UNCHANGED now
    /\ UNCHANGED <<ctlVars, runVars, tpVars>>

\* a prober that hands over the summary of an empty loop
Finish_Empty(l) ==
    [l EXCEPT !.pc = "done",
              !.summary = Some(latency_summary_from_samples(0, 0, <<>>))]

\* the loop is left:
\* Ok(latency_summary_from_samples(sent, received, &samples, online.stddev()))
Finish(l) ==
    [l EXCEPT !.pc = "done",
              !.summary = Some(latency_summary_from_samples(l.sent, l.received, l.samples))]

\* while start.elapsed() < total_duration
LatTop ==
    /\ Quiet
    /\ lat.pc = "top"
    /\ lat' = IF BeforeDeadline(now - lat.start, PhaseDuration(lat.phase))
              THEN [lat EXCEPT !.pc = "wait"] ELSE Finish(lat)
    /\ UNCHANGED evVars /\ LatFrame

\* wait_if_paused_or_cancelled(&paused, &cancel): sleep 50 ms at a time while
\* PauseWait holds, then return cancel.load(); the caller breaks when it is set
LatWait ==
    /\ Quiet
    /\ lat.pc = "wait"
    /\ ~PauseWait(paused, cancel)
    /\ lat' = IF BreakOnCancel(cancel) THEN Finish(lat) ELSE [lat EXCEPT !.pc = "issue"]
    /\ UNCHANGED evVars /\ LatFrame

\* sent += 1; client.probe_latency_ms(..)
LatIssue ==
    /\ Quiet
    /\ lat.pc = "issue"
    /\ lat' = [lat EXCEPT !.pc = "inflight", !.sent = @ + 1]
    /\ UNCHANGED evVars /\ LatFrame

\* the locals after a probe that returned Ok((ms, meta_opt))
ProbeOk(l, ms, hasMeta) ==
    [l EXCEPT !.received = @ + 1,
              !.samples = Append(@, ms),
              !.lastOk = TRUE,
              !.pc = IF ~l.metaSent /\ l.phase = "IdleLatency" /\ hasMeta
                     THEN "emit_meta" ELSE "emit"]

\* a prober that reports no event for a failed probe
ProbeErr_NoEvent(l) == [l EXCEPT !.lastOk = FALSE, !.wake = now, !.pc = "sleep"]

\* a prober that gives up at the first failed probe
ProbeErr_Break(l) == Finish(l)

\* the locals after a probe that returned Err (failure or timeout)
ProbeErr(l) == [l EXCEPT !.lastOk = FALSE, !.pc = "emit"]

LatResult ==
    /\ Quiet
    /\ lat.pc = "inflight"
    /\ \/ \E ms \in RttMs, hasMeta \in BOOLEAN : lat' = ProbeOk(lat, ms, hasMeta)
       \/ lat' = ProbeErr(lat)
    /\ UNCHANGED evVars /\ LatFrame

\* event_tx.send(TestEvent::MetaInfo { meta }).await.ok(); meta_sent = true
LatEmitMeta ==
    /\ Quiet
    /\ lat.pc = "emit_meta"
    /\ CanSend
    /\ evq' = Push(evq)
    /\ lat' = [lat EXCEPT !.pc = "emit", !.metaSent = TRUE]
    /\ UNCHANGED rxAlive /\ LatFrame

\* the locals after the LatencySample event of the attempt was sent
SampleSent(l) ==
    [l EXCEPT !.evOk = IF l.lastOk THEN @ + 1 ELSE @,
              !.evFail = IF l.lastOk THEN @ ELSE @ + 1,
              !.lastOk = FALSE,
              !.wake = now + probe_interval_ms,
              !.pc = "sleep"]

\* event_tx.send(TestEvent::LatencySample {..}).await.ok()
LatEmit ==
    /\ Quiet
    /\ lat.pc = "emit"
    /\ CanSend
    /\ evq' = Push(evq)
    /\ lat' = SampleSent(lat)
    /\ UNCHANGED rxAlive /\ LatFrame

\* tokio::time::sleep(Duration::from_millis(interval_ms)).await
LatSleep ==
    /\ Quiet
    /\ lat.pc = "sleep"
    /\ now >= lat.wake
    /\ lat' = [lat EXCEPT !.pc = "top", !.wake = 0]
    /\ UNCHANGED evVars /\ LatFrame

Prober ==
    \/ LatTop \/ LatWait \/ LatIssue \/ LatResult
    \/ LatEmitMeta \/ LatEmit \/ LatSleep

\* The prober seen from outside its task: it runs to its end and hands over a
\* summary (here the one of a loop that made no attempt).
ProberOutside ==
    /\ Quiet
    /\ lat.pc \notin {"off", "done", "lost"}
    /\ lat' = Finish(lat)
    /\ UNCHANGED evVars /\ LatFrame

\* The loaded-latency task seen from outside: a spawned task may also end
\* without having sent its summary (it panicked), and lat_tx is dropped.
ProberLost ==
    /\ Quiet
    /\ lat.pc \notin {"off", "done", "lost"}
    /\ lat.phase \in {"Download", "Upload"}
    /\ lat' = [lat EXCEPT !.pc = "lost"]
    /\ UNCHANGED evVars /\ LatFrame

(* ------------------------ throughput: estimator ----------------------- *)
\* throughput_summary(bytes, duration); mbps is bits / (1000 * duration_ms)
throughput_summary(bytes, duration) ==
    [ bytes |-> bytes, duration_ms |-> duration, bits |-> bytes * 8 ]

\* *t >= t0 with t0 = samples[0].0 + max(total_duration * 0.20, 1 s)
AtOrAfterCutoff(t, first, total_duration) ==
    5 * (t - first) >= Max(total_duration, 5 * RampFloorMs)

\* samples.iter().position(|(t, _)| *t >= t0), 1-based; None when no sample does
CutoffPosition(samples, total_duration) ==
    LET hit == {i \in DOMAIN samples :
                  AtOrAfterCutoff(samples[i][1], samples[1][1], total_duration)}
    IN IF hit = {} THEN None ELSE Some(CHOOSE i \in hit : \A j \in hit : i <= j)

\* .unwrap_or(0)
StartIndex(pos) == IF pos = None THEN 1 ELSE pos[1]

\* estimate_steady_window(samples, total_duration) -> Option<(u64, Duration)>
estimate_steady_window(samples, total_duration) ==
    IF Len(samples) < 2 THEN None
    ELSE LET start_idx == StartIndex(CutoffPosition(samples, total_duration))
             t_start == samples[start_idx][1]
             b_start == samples[start_idx][2]
             t_end == samples[Len(samples)][1]
             b_end == samples[Len(samples)][2]
             dt == saturating_sub(t_end, t_start)
         IN IF dt < MinWindowMs THEN None
            ELSE Some(<<saturating_sub(b_end, b_start), dt>>)

\* estimate_steady_window(&samples, duration).unwrap_or((bytes_total, duration)),
\* then throughput_summary(bytes, window)
PhaseSummary(samples, duration, bytes_total) ==
    LET w == estimate_steady_window(samples, duration) IN
    IF w = None THEN throughput_summary(bytes_total, duration)
    ELSE throughput_summary(w[1][1], w[1][2])

(* ------------------------- throughput: workers ------------------------ *)
\* a counter that takes the amount (a store) instead of growing by it
fetch_add_Store(counter, n) == n
\* AtomicU64::fetch_add(n, Ordering::Relaxed): one atomic read-modify-write,
\* so an addition is never made to a value another worker has since changed
fetch_add(counter, n) == counter + n

\* the chunks of one upload body: full chunks, then the tail when non-zero
full(bytes_per_req) == bytes_per_req \div UPLOAD_CHUNK_SIZE
tail(bytes_per_req) == bytes_per_req % UPLOAD_CHUNK_SIZE
BodyChunks(bytes_per_req) ==
    full(bytes_per_req) + (IF tail(bytes_per_req) = 0 THEN 0 ELSE 1)
\* a body stream that counts a whole chunk for its tail
BodyChunkLen_WholeTail(bytes_per_req, left) == UPLOAD_CHUNK_SIZE
\* the size of the next chunk when `left` chunks are still to be produced
BodyChunkLen(bytes_per_req, left) ==
    IF tail(bytes_per_req) # 0 /\ left = 1 THEN tail(bytes_per_req)
    ELSE UPLOAD_CHUNK_SIZE
\* let bytes_per_req = cfg.upload_bytes_per_req
UploadChunks == BodyChunks(cfg.upload_bytes_per_req)
UploadChunkLen(left) == BodyChunkLen(cfg.upload_bytes_per_req, left)

\* The N workers of a phase run the same code: wk counts the workers in each
\* position.  "loop": at the loop head; "get": a GET in flight (sent, or its
\* response body being read); "body": a POST in flight with `left` chunks of
\* its body still to be produced; "done": the task has ended.
WkAt(p, left) == [pc |-> p, left |-> left]
WkStates ==
    {WkAt(p, 0) : p \in {"loop", "get", "done"}}
        \cup {WkAt("body", k) : k \in 0..UploadChunks}
NoWorkers == [s \in WkStates |-> 0]
\* for _ in 0..cfg.concurrency { handles.push(tokio::spawn(..)) }
SpawnWorkers == [NoWorkers EXCEPT ![WkAt("loop", 0)] = Concurrency]
\* one worker moves from position a to position b
Move(w, a, b) ==
    [s \in WkStates |-> w[s] - (IF s = a THEN 1 ELSE 0) + (IF s = b THEN 1 ELSE 0)]
\* the workers that have a request in flight
InFlight(w) == Concurrency - w[WkAt("loop", 0)] - w[WkAt("done", 0)]

\* while !stop2.load(Ordering::Relaxed): the worker starts another request
WorkerContinues(st) == ~st

WkFrame ==
    /\ UNCHANGED <<now, lat, stop, samp, tput, cancelAtSpawn>>
    /\ UNCHANGED <<ctlVars, evVars, runVars>>

\* the loop head of a worker: leave when stop is set, else issue a request
WkLoop ==
    /\ Quiet
    /\ wk[WkAt("loop", 0)] > 0
    /\ wk' = Move(wk, WkAt("loop", 0),
                  IF ~WorkerContinues(stop) THEN WkAt("done", 0)
                  ELSE IF phase = "Download" THEN WkAt("get", 0)
                  ELSE WkAt("body", UploadChunks))
    /\ UNCHANGED <<total, adds>> /\ WkFrame

\* stream.next().await = Some(Ok(b)): total2.fetch_add(b.len()); break on stop
DlChunk ==
    /\ Quiet
    /\ wk[WkAt("get", 0)] > 0
    /\ adds < MaxChunks
    /\ \E len \in ChunkLens : total' = fetch_add(total, len)
    /\ adds' = adds + 1
    /\ wk' = Move(wk, WkAt("get", 0), WkAt(IF stop THEN "loop" ELSE "get", 0))
    /\ WkFrame

\* send().await = Err(_) => continue; stream.next().await = None, or
\* Some(Err(_)) => break
DlEnd ==
    /\ Quiet
    /\ wk[WkAt("get", 0)] > 0
    /\ wk' = Move(wk, WkAt("get", 0), WkAt("loop", 0))
    /\ UNCHANGED <<total, adds>> /\ WkFrame

\* the HTTP stack polls the body stream: fetch_add as the chunk is produced
UpChunk ==
    \E k \in 1..UploadChunks :
        /\ Quiet
        /\ wk[WkAt("body", k)] > 0
        /\ adds < MaxChunks
        /\ total' = fetch_add(total, UploadChunkLen(k))
        /\ adds' = adds + 1
        /\ wk' = Move(wk, WkAt("body", k), WkAt("body", k - 1))
        /\ WkFrame

\* http.post(url).body(body).send().await returns, Ok or Err, result ignored;
\* a failed request may return before the whole body was produced
UpResponse ==
    \E k \in 0..UploadChunks :
        /\ Quiet
        /\ wk[WkAt("body", k)] > 0
        /\ wk' = Move(wk, WkAt("body", k), WkAt("loop", 0))
        /\ UNCHANGED <<total, adds>> /\ WkFrame

Worker ==
    \/ WkLoop \/ DlChunk \/ DlEnd \/ UpChunk \/ UpResponse

\* The workers seen from outside their tasks: until all of them have ended
\* the byte counter may grow by a chunk, and they end only once stop is set.
WkBytes ==
    /\ Quiet
    /\ wk # NoWorkers /\ wk[WkAt("done", 0)] < Concurrency
    /\ adds < MaxAdds
    /\ \E len \in IF phase = "Download" THEN ChunkLens
                   ELSE {UploadChunkLen(k) : k \in 1..UploadChunks} :
         total' = total + len
    /\ adds' = adds + 1
    /\ UNCHANGED wk /\ WkFrame

WkAllEnd ==
    /\ Quiet
    /\ wk # NoWorkers /\ wk[WkAt("done", 0)] < Concurrency
    /\ ~WorkerContinues(stop)
    /\ wk' = [NoWorkers EXCEPT ![WkAt("done", 0)] = Concurrency]
    /\ UNCHANGED <<total, adds>> /\ WkFrame

WorkersOutside == WkBytes \/ WkAllEnd

(* ------------------------- throughput: sampler ------------------------ *)
NoSampler ==
    [ phase |-> "off", start |-> 0, last_bytes |-> 0, samples |-> <<>>, ticks |-> 0,
      tick |-> [bytes_total |-> 0, dbytes |-> 0], wake |-> 0 ]

SampFrame ==
    /\ UNCHANGED <<now, lat, wk, total, adds, cancelAtSpawn>>
    /\ UNCHANGED <<ctlVars, phase, result, meta, phaseLog, stunSent, udp, cfg, ui, tr>>

\* while start.elapsed() < cfg.download_duration (upload_duration); when the
\* loop is left: stop.store(true, Ordering::Relaxed)
TpLoop ==
    /\ Quiet
    /\ pc = "tp_loop"
    /\ IF BeforeDeadline(now - samp.start, PhaseDuration(phase))
       THEN pc' = "tp_wait" /\ stop' = stop
       ELSE pc' = "tp_join" /\ stop' = TRUE
    /\ UNCHANGED <<samp, tput, evVars>> /\ SampFrame

\* the locals after now_total = total.load(); dbytes = ..; last_bytes = ..;
\* samples.push((Instant::now(), now_total))
TakeSample(sm, t, now_total) ==
    [sm EXCEPT !.tick = [bytes_total |-> now_total,
                         dbytes |-> saturating_sub(now_total, sm.last_bytes)],
               !.last_bytes = now_total,
               !.samples = Append(@, <<t, now_total>>)]

\* while paused.load() && !cancel.load() { sleep(50 ms) }
\* if cancel.load() { break }, and then stop.store(true); else take the sample
TpWait ==
    /\ Quiet
    /\ pc = "tp_wait"
    /\ ~PauseWait(paused, cancel)
    /\ IF BreakOnCancel(cancel)
       THEN pc' = "tp_join" /\ stop' = TRUE /\ samp' = samp
       ELSE pc' = "tp_emit" /\ stop' = stop /\ samp' = TakeSample(samp, now, total)
    /\ UNCHANGED <<tput, evVars>> /\ SampFrame

\* event_tx.send(TestEvent::ThroughputTick {..}).await.ok()
TpEmit ==
    /\ Quiet
    /\ pc = "tp_emit"
    /\ CanSend
    /\ evq' = Push(evq)
    /\ samp' = [samp EXCEPT !.ticks = @ + 1, !.wake = now + SampleIntervalMs]
    /\ pc' = "tp_sleep"
    /\ UNCHANGED <<stop, tput, rxAlive>> /\ SampFrame

\* tokio::time::sleep(Duration::from_millis(200)).await
TpSleep ==
    /\ Quiet
    /\ pc = "tp_sleep"
    /\ now >= samp.wake
    /\ samp' = [samp EXCEPT !.wake = 0]
    /\ pc' = "tp_loop"
    /\ UNCHANGED <<stop, tput, evVars>> /\ SampFrame

\* a phase that reads the total without waiting for its workers
Joined_NoWait(w) == TRUE

\* for h in handles { let _ = h.await; }: every worker has ended
Joined(w) == w[WkAt("done", 0)] = Concurrency

\* duration = start.elapsed(); bytes_total = total.load(); the phase summary
TpJoin ==
    /\ Quiet
    /\ pc = "tp_join"
    /\ Joined(wk)
    /\ LET duration == now - samp.start IN
         tput' = Some([ bytes_total |-> total,
                        duration |-> duration,
                        summary |-> PhaseSummary(samp.samples, duration, total) ])
    /\ pc' = "tp_recv"
    /\ UNCHANGED <<samp, stop, evVars>> /\ SampFrame

\* a run() that announces the upload phase right after the idle phase
NextPhase_SkipsDownload(p) ==
    IF p = "IdleLatency" THEN "Upload" ELSE "Summary"

NextPhase(p) ==
    CASE p = "IdleLatency" -> "Download"
      [] p = "Download" -> "Upload"
      [] OTHER -> "Summary"

\* a phase function that returns without the summary of its latency task
Received_NoWait(l) == TRUE
\* lat_rx.recv().await returns Some(res): lat_tx.send(res) has been done,
\* which the task does after run_latency_probes has returned
Received(l) == l.pc = "done"

\* lat_rx.recv().await: the loaded-latency task has sent its summary
TpRecv ==
    /\ Quiet
    /\ pc = "tp_recv"
    /\ Received(lat)
    /\ pc' = "phase_start"
    /\ phase' = NextPhase(phase)
    /\ UNCHANGED <<samp, stop, tput, evVars>>
    /\ UNCHANGED <<now, lat, wk, total, adds, cancelAtSpawn>>
    /\ UNCHANGED <<ctlVars, result, meta, phaseLog, stunSent, udp, cfg, ui, tr>>

\* lat_rx.recv().await is None: the loaded-latency task ended without sending.
\* .context("loaded latency task ended unexpectedly")? returns the error from
\* the phase and then from run(); control_handle is dropped, not aborted.
TpRecvErr ==
    /\ Quiet
    /\ pc = "tp_recv"
    /\ lat.pc = "lost"
    /\ pc' = "returned"
    /\ result' = "Err"
    /\ UNCHANGED <<samp, stop, tput, evVars>>
    /\ UNCHANGED <<now, lat, wk, total, adds, cancelAtSpawn>>
    /\ UNCHANGED <<ctlVars, phase, meta, phaseLog, stunSent, udp, cfg, ui, tr>>

Sampler ==
    \/ TpLoop \/ TpWait \/ TpEmit \/ TpSleep \/ TpJoin \/ TpRecv

(* ------------------------- the STUN loss probe ------------------------ *)
\* A datagram is its bytes, buf[1] being the byte the code calls buf[0].  The
\* transaction ids are 12 random bytes, never the same twice: Txid stands for
\* the id of the attempt in progress, OldTxid for the id of an earlier one.
Txid == <<161, 2, 3, 4, 5, 6, 7, 8, 9, 10, 11, 12>>
OldTxid == <<161, 2, 3, 4, 5, 6, 7, 8, 9, 10, 11, 13>>
MagicCookie == <<33, 18, 164, 66>>
\* the XOR-MAPPED-ADDRESS attribute a server appends to its response
XorMappedAddress == <<0, 32, 0, 8, 0, 1, 225, 186, 225, 18, 164, 64>>

\* a Binding Success Response (type 0x0101) to the request with this id
BindingSuccess(txid) ==
    <<1, 1, 0, 12>> \o MagicCookie \o txid \o XorMappedAddress

\* the datagrams of the probe, as the attempt in progress sees them: the
\* response to its own request, the response to an earlier request, and a
\* Binding Error Response (type 0x0111) to its own request
Reply == BindingSuccess(Txid)
Stale == BindingSuccess(OldTxid)
Junk == <<1, 17, 0, 0>> \o MagicCookie \o Txid
Datagrams == {Reply, Stale, Junk}

\* a check that does not compare the transaction id
is_stun_binding_response_AnyTxid(buf, txid) ==
    IF Len(buf) < 20 THEN FALSE
    ELSE IF buf[1] # 1 \/ buf[2] # 1 THEN FALSE
    ELSE ~(buf[5] # 33 \/ buf[6] # 18 \/ buf[7] # 164 \/ buf[8] # 66)

\* is_stun_binding_response(&buf[..n], txid)
is_stun_binding_response(buf, txid) ==
    IF Len(buf) < 20 THEN FALSE
    ELSE IF buf[1] # 1 \/ buf[2] # 1 THEN FALSE
    ELSE IF buf[5] # 33 \/ buf[6] # 18 \/ buf[7] # 164 \/ buf[8] # 66
    THEN FALSE
    ELSE SubSeq(buf, 9, 20) = txid

\* a new transaction id: the replies still queued are replies to earlier ids
Age(inbox) ==
    [i \in DOMAIN inbox |-> IF inbox[i] = Reply THEN Stale ELSE inbox[i]]

\* the probe is not running.  received, samples: its locals (sent is
\* stunSent); buf: the bytes recv has put into the buffer of the attempt;
\* inbox: the socket's queue; replied: a reply to this attempt arrived
\* within its 600 ms; ok: this attempt was counted as received; early: recv
\* returned before its timeout
NoUdp ==
    [ pc |-> "off", received |-> 0, samples |-> <<>>, buf |-> <<>>,
      inbox |-> <<>>, replied |-> FALSE, ok |-> FALSE, early |-> FALSE,
      summary |-> None ]

\* a probe that takes whatever datagram arrives for the reply
AfterRecv_AnyDatagram(u, d, ms) ==
    [u EXCEPT !.received = @ + 1, !.samples = Append(@, ms), !.ok = TRUE,
              !.buf = d, !.early = TRUE, !.pc = "sleep"]

\* the locals after recv returned datagram d, ms after the request:
\* Ok(Ok(n)) if is_stun_binding_response(..) => { received += 1; .. }, _ => {}
AfterRecv(u, d, ms) ==
    IF is_stun_binding_response(d, Txid)
    THEN [u EXCEPT !.received = @ + 1, !.samples = Append(@, ms), !.ok = TRUE,
                   !.buf = d, !.early = TRUE, !.pc = "sleep"]
    ELSE [u EXCEPT !.ok = FALSE, !.buf = d, !.early = TRUE, !.pc = "sleep"]

StunFrame ==
    /\ UNCHANGED <<phase, result, meta, phaseLog, now, lat, cfg, ui, tr>>
    /\ UNCHANGED <<ctlVars, evVars, tpVars>>

\* sent += 1; a fresh txid; sock.send(&pkt), its result ignored; a zeroed
\* buf; then timeout(600 ms, sock.recv(&mut buf)) is awaited
StunSend ==
    /\ pc = "stun" /\ udp.pc = "top"
    /\ stunSent < StunAttempts
    /\ stunSent' = stunSent + 1
    /\ udp' = [udp EXCEPT !.pc = "recv", !.inbox = Age(@), !.replied = FALSE,
                          !.buf = <<>>, !.ok = FALSE, !.early = FALSE]
    /\ UNCHANGED pc /\ StunFrame

\* A datagram arrives on the socket.  It is within the 600 ms of the attempt
\* while recv is pending, and may be when recv has returned early.
StunArrive ==
    \E d \in Datagrams, within \in BOOLEAN :
        /\ pc = "stun" /\ udp.pc \in {"recv", "sleep"}
        /\ Len(udp.inbox) < MaxInbox
        /\ d = Stale => stunSent > 1
        /\ within => (udp.pc = "recv" \/ udp.early)
        /\ udp.pc = "recv" => within
        /\ udp' = [udp EXCEPT !.inbox = Append(@, d),
                              !.replied = @ \/ (d = Reply /\ within)]
        /\ UNCHANGED <<pc, stunSent>> /\ StunFrame

\* recv returns the datagram at the head of the socket's queue
StunRecv ==
    /\ pc = "stun" /\ udp.pc = "recv"
    /\ udp.inbox # <<>>
    /\ \E ms \in RttMs :
         udp' = AfterRecv([udp EXCEPT !.inbox = Tail(@)], Head(udp.inbox), ms)
    /\ UNCHANGED <<pc, stunSent>> /\ StunFrame

\* Err(Elapsed) after 600 ms without a datagram, or Ok(Err(_)): the `_` arm
StunTimeout ==
    /\ pc = "stun" /\ udp.pc = "recv"
    /\ udp.inbox = <<>>
    /\ udp' = [udp EXCEPT !.ok = FALSE, !.pc = "sleep"]
    /\ UNCHANGED <<pc, stunSent>> /\ StunFrame

\* tokio::time::sleep(interval).await
StunSleep ==
    /\ pc = "stun" /\ udp.pc = "sleep"
    /\ udp' = [udp EXCEPT !.pc = "top"]
    /\ UNCHANGED <<pc, stunSent>> /\ StunFrame

\* the for loop has ended: latency_summary_from_samples(sent, received, ..),
\* Ok(ExperimentalUdpSummary {..})
StunDone ==
    /\ pc = "stun" /\ udp.pc = "top"
    /\ stunSent >= StunAttempts
    /\ udp' = [udp EXCEPT
                 !.pc = "done",
                 !.summary = Some(latency_summary_from_samples(
                                     stunSent, udp.received, udp.samples))]
    /\ pc' = "abort"
    /\ UNCHANGED stunSent /\ StunFrame

(* ------------------------------ traceroute ---------------------------- *)
\* run_traceroute is not running
NoTrace == [pc |-> "off"]

EchoRequest == 8
EchoReply == 0
PROBES_PER_HOP == 3

\* (x >> 8) as u8 and (x & 0xff) as u8 of a u16
Hi(x) == x \div 256
Lo(x) == x % 256

\* the while loop of calculate_icmp_checksum from byte i on (data[1] is the
\* byte the code calls data[0]): the big-endian 16-bit words, then the odd
\* last byte << 8.  The u32 cannot wrap: 32 words of at most 0xffff.
RECURSIVE WordSum(_, _)
WordSum(data, i) ==
    IF i > Len(data) THEN 0
    ELSE IF i = Len(data) THEN data[i] * 256
    ELSE data[i] * 256 + data[i + 1] + WordSum(data, i + 2)

\* while sum >> 16 != 0 { sum = (sum & 0xffff) + (sum >> 16) }
RECURSIVE FoldCarries(_)
FoldCarries(sum) ==
    IF sum \div 65536 # 0
    THEN FoldCarries((sum % 65536) + (sum \div 65536))
    ELSE sum

\* a checksum that drops the carries instead of adding them back
calculate_icmp_checksum_NoFold(data) == 65535 - (WordSum(data, 1) % 65536)

\* calculate_icmp_checksum(data): !sum as u16
calculate_icmp_checksum(data) == 65535 - FoldCarries(WordSum(data, 1))

\* build_icmp_packet(id, seq)
build_icmp_packet(id, seq) ==
    LET header == <<EchoRequest, 0, 0, 0, Hi(id), Lo(id), Hi(seq), Lo(seq)>>
        packet == header \o [i \in 1..56 |-> i - 1]
        checksum == calculate_icmp_checksum(packet)
    IN  [packet EXCEPT ![3] = Hi(checksum), ![4] = Lo(checksum)]

\* The destination argument of run_traceroute: an IPv4 literal, a name that
\* resolves to an IPv4 address, a name that resolves to an IPv6 address, a
\* name that does not resolve.
Destinations == {"ip4", "host4", "host6", "unknown"}
DestinationText(d) ==
    CASE d = "ip4" -> "203.0.113.9"
      [] d = "host4" -> "speed.example"
      [] d = "host6" -> "six.example"
      [] OTHER -> "nowhere.example"
\* resolve_destination(destination), as ip.to_string() prints it
ResolvedIp(d) == IF d = "host6" THEN "2001:db8::9" ELSE "203.0.113.9"

\* the router that answers the probes of a TTL, and a host that is not on
\* the path
RouterIps == <<"10.0.0.1", "10.0.0.2", "10.0.0.3", "10.0.0.4">>
StrayIp == "198.51.100.77"
TraceRttMs == 12

\* What a probe meets.  send_to fails; recv_from fails (WouldBlock, TimedOut
\* or another error); recv_from returns a packet: from its source, icmp_type
\* the byte at offset 20, len its length, mine whether it answers this probe
\* (a raw ICMP socket is handed every ICMP packet the host receives).
SendErr == [kind |-> "send_err"]
RecvErr == [kind |-> "timeout"]
Packet(from, icmp_type, mine) ==
    [kind |-> "packet", from |-> from, icmp_type |-> icmp_type, len |-> 84,
     rtt |-> TraceRttMs, mine |-> mine]
\* Time Exceeded (type 11) from the router where the TTL ran out
HopReply(ttl) == Packet(RouterIps[ttl], 11, TRUE)
\* the Echo Reply of the destination
DestReply(d) == Packet(ResolvedIp(d), EchoReply, TRUE)
\* the Echo Reply of another host to another process's ping
StrayReply == Packet(StrayIp, EchoReply, FALSE)

ProbeOutcomes(d, ttl) ==
    {SendErr, RecvErr, HopReply(ttl), DestReply(d), StrayReply}
HopObservations(d, ttl) == [1..PROBES_PER_HOP -> ProbeOutcomes(d, ttl)]

\* the locals of one pass of the TTL loop after a probe that met o:
\* send_to(..).is_err() => continue; Ok((len, from)) => {..}; Err(_) => timeout
AfterProbe(d, h, o) ==
    IF o.kind = "send_err" THEN h
    ELSE IF o.kind = "timeout" THEN [h EXCEPT !.timeout = TRUE]
    ELSE [h EXCEPT
            !.rtts = Append(@, o.rtt),
            !.hop_ip = IF @ = None THEN Some(o.from) ELSE @,
            !.completed = \/ @
                          \/ o.from = ResolvedIp(d)
                          \/ (o.len >= 20 + 8 /\ o.icmp_type = EchoReply)]

\* for probe_num in 0..PROBES_PER_HOP {..}: the blocking calls of one TTL
RECURSIVE AfterProbes(_, _, _, _)
AfterProbes(d, h, outs, n) ==
    IF n = 0 THEN h
    ELSE AfterProbe(d, AfterProbes(d, h, outs, n - 1), outs[n])

\* let hop = TracerouteHop {..}; resolve_hostname returns None
TracerouteHop(ttl, h) ==
    [hop_number |-> ttl, ip_address |-> h.hop_ip, hostname |-> None,
     rtt_ms |-> h.rtts, timeout |-> h.timeout /\ h.hop_ip = None]

\* The output of the traceroute command, a line a sequence of tokens.
Num(n) == [t |-> "num", n |-> n]
Ip(a) == [t |-> "ip", s |-> a]
Word(w) == [t |-> "word", s |-> w]
\* the "<1" of tracert
LessThan(n) == [t |-> "lt", n |-> n]
Star == [t |-> "star"]
Ms == [t |-> "ms"]

\* the command matches replies to its own probes: it reports a probe without
\* such a reply as "*"
Reported(o) == IF o.kind = "packet" /\ o.mine THEN o ELSE RecvErr

\* "traceroute -n -q 3" prints the hop number, then for each probe "*" or the
\* round-trip time, preceded by the address when it differs from the last
\* address printed on the line
RECURSIVE CommandTokens(_, _, _)
CommandTokens(outs, n, last) ==
    IF n > Len(outs) THEN <<>>
    ELSE LET o == Reported(outs[n]) IN
         IF o.kind # "packet" THEN <<Star>> \o CommandTokens(outs, n + 1, last)
         ELSE (IF o.from = last THEN <<>> ELSE <<Ip(o.from)>>)
              \o <<Num(o.rtt), Ms>> \o CommandTokens(outs, n + 1, o.from)
CommandLine(ttl, outs) == <<Num(ttl)>> \o CommandTokens(outs, 1, "")

HeaderLine(d, max_hops) ==
    <<Word("traceroute"), Word("to"), Word(DestinationText(d)),
      Num(max_hops), Word("hops"), Word("max")>>
CommandOutput(d, max_hops, obs) ==
    <<HeaderLine(d, max_hops)>>
    \o [i \in 1..Len(obs) |-> CommandLine(i, obs[i])]

\* the command stops after the TTL at which the destination answered
CommandReached(d, obs) ==
    /\ obs # <<>>
    /\ \E n \in 1..PROBES_PER_HOP :
         LET o == obs[Len(obs)][n] IN
         o.kind = "packet" /\ o.mine /\ o.from = ResolvedIp(d)
CommandOutcomes(d, ttl) == {RecvErr, HopReply(ttl), DestReply(d)}

\* line.is_empty() || starts_with("traceroute") || starts_with("Tracing")
\* || contains("hops max")
IsHeader(line) ==
    \/ line = <<>>
    \/ line[1].t = "word" /\ line[1].s \in {"traceroute", "Tracing"}
    \/ \E i \in 1..(Len(line) - 1) :
         /\ line[i].t = "word" /\ line[i].s = "hops"
         /\ line[i + 1].t = "word" /\ line[i + 1].s = "max"

\* the loop of parse_hop_line over parts.iter().skip(1): "ms" is skipped, a
\* number (also "<1") is a round-trip time, an address replaces ip_address
RECURSIVE HopRtts(_)
HopRtts(parts) ==
    IF parts = <<>> THEN <<>>
    ELSE IF Head(parts).t \in {"num", "lt"}
         THEN <<Head(parts).n>> \o HopRtts(Tail(parts))
         ELSE HopRtts(Tail(parts))
RECURSIVE HopIp(_)
HopIp(parts) ==
    IF parts = <<>> THEN None
    ELSE IF parts[Len(parts)].t = "ip" THEN Some(parts[Len(parts)].s)
         ELSE HopIp(SubSeq(parts, 1, Len(parts) - 1))

\* parse_hop_line(line)
parse_hop_line(parts) ==
    IF parts = <<>> THEN None
    ELSE IF ~(parts[1].t = "num" /\ parts[1].n \in 0..255) THEN None
    ELSE IF \A i \in 2..Len(parts) : parts[i].t = "star"
    THEN Some([hop_number |-> parts[1].n, ip_address |-> None,
               hostname |-> None, rtt_ms |-> <<>>, timeout |-> TRUE])
    ELSE IF HopIp(Tail(parts)) = None /\ HopRtts(Tail(parts)) = <<>> THEN None
    ELSE Some([hop_number |-> parts[1].n, ip_address |-> HopIp(Tail(parts)),
               hostname |-> None, rtt_ms |-> HopRtts(Tail(parts)),
               timeout |-> FALSE])

\* the hops parse_traceroute_output returns for these lines
RECURSIVE ParsedHops(_)
ParsedHops(lines) ==
    IF lines = <<>> THEN <<>>
    ELSE LET line == lines[Len(lines)]
             before == ParsedHops(SubSeq(lines, 1, Len(lines) - 1))
         IN  IF IsHeader(line) \/ parse_hop_line(line) = None THEN before
             ELSE Append(before, parse_hop_line(line)[1])

\* Ok(TracerouteSummary {..}) of run_icmp_traceroute: destination is the IpAddr
IcmpSummary(d, hops, completed) ==
    [destination |-> ResolvedIp(d), hops |-> hops, completed |-> completed]

\* Ok(TracerouteSummary {..}) of run_system_traceroute: destination is the
\* argument of run_traceroute, completed compares the last hop's address
SystemSummary(d, hops) ==
    [destination |-> DestinationText(d), hops |-> hops,
     completed |-> IF hops = <<>> THEN FALSE
                   ELSE hops[Len(hops)].ip_address = Some(ResolvedIp(d))]

\* run_traceroute(destination, max_hops, event_tx) is entered.  cause: why the
\* raw path returned Err; ttl, hop, completed, hops: the locals of the path
\* that runs; obs: what the probes of each TTL met so far, the walk's or the
\* command's; emitted: the hop events of the path that runs; events: every
\* event sent, a hop by its number and the Info event as 0; output, line: the
\* command's output and the line parse_traceroute_output is at
NewTrace(d, max_hops) ==
    [pc |-> "resolve", destination |-> d, max_hops |-> max_hops,
     cause |-> "none", path |-> "none", ttl |-> 0, hop |-> None,
     completed |-> FALSE, hops |-> <<>>, obs |-> <<>>, emitted |-> 0,
     events |-> <<>>, output |-> None, line |-> 0,
     status |-> "running", summary |-> None]

\* a run_traceroute that returns the error of the raw path
RawFailed_Propagate(t, cause) ==
    [t EXCEPT !.pc = "done", !.cause = cause, !.status = "Err"]

\* Err(e) of run_icmp_traceroute: the match arm that sends the Info event
RawFailed(t, cause) == [t EXCEPT !.pc = "info", !.cause = cause]

TraceFrame ==
    /\ UNCHANGED <<pc, phase, result, meta, phaseLog, stunSent, udp, cfg, ui>>
    /\ UNCHANGED <<now, lat, rxAlive, ctlVars, tpVars>>

\* let ip = resolve_destination(destination)?
TraceResolve ==
    /\ Quiet
    /\ pc = "traceroute" /\ tr.pc = "resolve"
    /\ tr' = IF tr.destination = "unknown"
             THEN [tr EXCEPT !.pc = "done", !.status = "Err"]
             ELSE [tr EXCEPT !.pc = "icmp_open"]
    /\ UNCHANGED evq /\ TraceFrame

\* run_icmp_traceroute up to its loop: IPv6 is refused, Socket::new(..)?,
\* set_read_timeout(..)?, set_nonblocking(..)?
IcmpOpen ==
    /\ Quiet
    /\ pc = "traceroute" /\ tr.pc = "icmp_open"
    /\ \E r \in {"ok", "socket", "setup"} :
         tr' = IF tr.destination = "host6" THEN RawFailed(tr, "v6")
               ELSE IF r # "ok" THEN RawFailed(tr, r)
               ELSE [tr EXCEPT !.path = "icmp", !.ttl = 1,
                               !.pc = IF tr.max_hops = 0 THEN "icmp_ret"
                                      ELSE "icmp_ttl"]
    /\ UNCHANGED evq /\ TraceFrame

\* one pass of for ttl in 1..=max_hops up to the hop: socket.set_ttl(ttl)?,
\* the three probes (blocking calls), the TracerouteHop
IcmpProbeHop ==
    /\ Quiet
    /\ pc = "traceroute" /\ tr.pc = "icmp_ttl"
    /\ \/ tr' = RawFailed(tr, "ttl")
       \/ \E outs \in HopObservations(tr.destination, tr.ttl) :
            LET h == AfterProbes(tr.destination,
                                 [rtts |-> <<>>, hop_ip |-> None,
                                  timeout |-> FALSE,
                                  completed |-> tr.completed],
                                 outs, PROBES_PER_HOP)
            IN  tr' = [tr EXCEPT !.pc = "icmp_emit",
                                 !.hop = Some(TracerouteHop(tr.ttl, h)),
                                 !.completed = h.completed,
                                 !.obs = Append(@, outs)]
    /\ UNCHANGED evq /\ TraceFrame

\* event_tx.send(TestEvent::TracerouteHop {..}).await; hops.push(hop);
\* if completed { break; }
IcmpEmit ==
    /\ Quiet
    /\ pc = "traceroute" /\ tr.pc = "icmp_emit"
    /\ CanSend
    /\ evq' = Push(evq)
    /\ tr' = [tr EXCEPT
                !.events = Append(@, tr.hop[1].hop_number),
                !.emitted = @ + 1,
                !.hops = Append(@, tr.hop[1]),
                !.hop = None,
                !.ttl = @ + 1,
                !.pc = IF tr.completed \/ tr.ttl = tr.max_hops
                       THEN "icmp_ret" ELSE "icmp_ttl"]
    /\ TraceFrame

\* Ok(TracerouteSummary {..}), returned by run_traceroute as it is
IcmpReturn ==
    /\ Quiet
    /\ pc = "traceroute" /\ tr.pc = "icmp_ret"
    /\ tr' = [tr EXCEPT
                !.pc = "done", !.status = "Ok",
                !.summary = Some(IcmpSummary(tr.destination, tr.hops,
                                             tr.completed))]
    /\ UNCHANGED evq /\ TraceFrame

\* event_tx.send(TestEvent::Info { "ICMP traceroute unavailable .." }).await;
\* then run_system_traceroute is entered with locals of its own
FallbackInfo ==
    /\ Quiet
    /\ pc = "traceroute" /\ tr.pc = "info"
    /\ CanSend
    /\ evq' = Push(evq)
    /\ tr' = [tr EXCEPT
                !.events = Append(@, 0), !.path = "system", !.pc = "sys_run",
                !.ttl = 0, !.hop = None, !.completed = FALSE, !.hops = <<>>,
                !.obs = <<>>, !.emitted = 0]
    /\ TraceFrame

\* spawn_blocking(.. Command::new(cmd).args(&args).output()) returns an error:
\* the task failed or the command could not be executed
SystemSpawnFails ==
    /\ Quiet
    /\ pc = "traceroute" /\ tr.pc = "sys_run" /\ tr.obs = <<>>
    /\ tr' = [tr EXCEPT !.pc = "done", !.status = "Err"]
    /\ UNCHANGED evq /\ TraceFrame

\* the command, running on the blocking pool, probes its next TTL
CommandProbe ==
    /\ Quiet
    /\ pc = "traceroute" /\ tr.pc = "sys_run"
    /\ Len(tr.obs) < tr.max_hops
    /\ ~CommandReached(tr.destination, tr.obs)
    /\ \E outs \in [1..PROBES_PER_HOP ->
                      CommandOutcomes(tr.destination, Len(tr.obs) + 1)] :
         tr' = [tr EXCEPT !.obs = Append(@, outs)]
    /\ UNCHANGED evq /\ TraceFrame

\* the command exits and output() returns what it printed
CommandExit ==
    /\ Quiet
    /\ pc = "traceroute" /\ tr.pc = "sys_run"
    /\ Len(tr.obs) = tr.max_hops \/ CommandReached(tr.destination, tr.obs)
    /\ tr' = [tr EXCEPT
                !.output = Some(CommandOutput(tr.destination, tr.max_hops,
                                              tr.obs)),
                !.line = 1, !.pc = "sys_parse"]
    /\ UNCHANGED evq /\ TraceFrame

\* one pass of for line in output.lines() of parse_traceroute_output: a
\* header is skipped, a hop line is parsed, and its event sent
SystemParse ==
    /\ Quiet
    /\ pc = "traceroute" /\ tr.pc = "sys_parse"
    /\ tr.line <= Len(tr.output[1])
    /\ LET line == tr.output[1][tr.line]
           hop == parse_hop_line(line)
       IN  IF IsHeader(line) \/ hop = None
           THEN /\ tr' = [tr EXCEPT !.line = @ + 1]
                /\ UNCHANGED evq
           ELSE /\ CanSend
                /\ evq' = Push(evq)
                /\ tr' = [tr EXCEPT
                            !.line = @ + 1,
                            !.events = Append(@, hop[1].hop_number),
                            !.emitted = @ + 1,
                            !.hops = Append(@, hop[1])]
    /\ TraceFrame

\* the lines are read: completed, Ok(TracerouteSummary {..})
SystemReturn ==
    /\ Quiet
    /\ pc = "traceroute" /\ tr.pc = "sys_parse"
    /\ tr.line > Len(tr.output[1])
    /\ tr' = [tr EXCEPT
                !.pc = "done", !.status = "Ok",
                !.summary = Some(SystemSummary(tr.destination, tr.hops))]
    /\ UNCHANGED evq /\ TraceFrame

(* --------------------------- TestEngine::run -------------------------- *)
RunFrame ==
    /\ UNCHANGED <<paused, cancel, ctl, ctlOpen>>


\* What CloudflareClient::new reads of the RunConfig.  base_url: whether
\* Url::parse accepts it; interface: not given, or whether get_interface_ip
\* finds an address for it; source_ip: not given, or whether it parses as an
\* IpAddr; certificate_path: not given, or how far new() gets with the file
BaseUrls == {"valid", "invalid"}
Interfaces == {"none", "found", "missing"}
SourceIps == {"none", "parses", "malformed"}
Certificates ==
    {"none", "parses", "bad_extension", "no_extension", "unreadable",
     "unparsable"}
RunConfigs ==
    [base_url : BaseUrls, interface : Interfaces, source_ip : SourceIps,
     certificate_path : Certificates,
     idle_latency_duration : {idle_latency_duration},
     download_duration : {download_duration},
     upload_duration : {upload_duration},
     upload_bytes_per_req : {upload_bytes_per_req}]
DefaultCfg ==
    [base_url |-> "valid", interface |-> "none", source_ip |-> "none",
     certificate_path |-> "none",
     idle_latency_duration |-> idle_latency_duration,
     download_duration |-> download_duration,
     upload_duration |-> upload_duration,
     upload_bytes_per_req |-> upload_bytes_per_req]

\* a constructor that does not look at the certificate file
CloudflareClient_new_AnyCertificate(c, built) ==
    IF c.base_url = "invalid" THEN FALSE
    ELSE IF c.interface = "missing" THEN FALSE
    ELSE IF c.interface = "none" /\ c.source_ip = "malformed" THEN FALSE
    ELSE built

\* CloudflareClient::new(cfg).is_ok(); built: builder.build() succeeds.
\* Url::parse(..)?; if let Some(iface) {..} else if let Some(source_ip) {..};
\* the extension, fs::read(..)?, from_der / from_pem(..)?; builder.build()?
CloudflareClient_new(c, built) ==
    IF c.base_url = "invalid" THEN FALSE
    ELSE IF c.interface = "missing" THEN FALSE
    ELSE IF c.interface = "none" /\ c.source_ip = "malformed" THEN FALSE
    ELSE IF c.certificate_path \notin {"none", "parses"} THEN FALSE
    ELSE built

\* CloudflareClient::new(&self.cfg)?
EngineNew ==
    /\ Quiet
    /\ pc = "new"
    /\ \E built \in BOOLEAN :
         LET ok == CloudflareClient_new(cfg, built) IN
         /\ pc' = IF ok THEN "meta" ELSE "returned"
         /\ result' = IF ok THEN result ELSE "Err"
    /\ UNCHANGED <<phase, meta, phaseLog, stunSent, udp, cfg, ui, tr, listener, now, lat>>
    /\ UNCHANGED <<evVars, tpVars>> /\ RunFrame

\* fetch_meta, fetch_trace, fetch_meta_from_response: meta is Some or None
FetchMeta ==
    /\ Quiet
    /\ pc = "meta"
    /\ \E m \in {"resolved", "settled"} : meta' = m
    /\ pc' = "meta_emit"
    /\ UNCHANGED <<phase, result, phaseLog, stunSent, udp, cfg, ui, tr, listener, now, lat>>
    /\ UNCHANGED <<evVars, tpVars>> /\ RunFrame

\* a run that keeps the metadata for the result and sends no MetaInfo event
EmitMeta_Silent ==
    /\ Quiet
    /\ pc = "meta_emit"
    /\ meta' = "settled"
    /\ pc' = "spawn"
    /\ UNCHANGED <<phase, result, phaseLog, stunSent, udp, cfg, ui, tr, listener, now, lat>>
    /\ UNCHANGED <<evVars, tpVars>> /\ RunFrame

\* if let Some(ref m) = meta { event_tx.send(TestEvent::MetaInfo {..}).await.ok() }
EmitMeta ==
    /\ Quiet
    /\ pc = "meta_emit"
    /\ IF meta = "resolved"
       THEN CanSend /\ evq' = Push(evq) /\ meta' = "settled"
       ELSE UNCHANGED <<evq, meta>>
    /\ pc' = "spawn"
    /\ UNCHANGED <<phase, result, phaseLog, stunSent, udp, cfg, ui, tr, listener, now, lat, rxAlive>>
    /\ UNCHANGED tpVars /\ RunFrame

\* let control_handle = tokio::spawn(async move { .. })
SpawnListener ==
    /\ Quiet
    /\ pc = "spawn"
    /\ listener' = "running"
    /\ pc' = "phase_start"
    /\ UNCHANGED <<phase, result, meta, phaseLog, stunSent, udp, cfg, ui, tr, now, lat>>
    /\ UNCHANGED <<evVars, tpVars>> /\ RunFrame

\* the orchestrator's position once PhaseStarted { phase: p } was sent
AfterPhaseStarted(p) == IF p = "Summary" THEN "turn" ELSE "phase_run"

\* event_tx.send(TestEvent::PhaseStarted { phase }).await.ok()
PhaseStart ==
    /\ Quiet
    /\ pc = "phase_start"
    /\ CanSend
    /\ evq' = Push(evq)
    /\ phaseLog' = Append(phaseLog, phase)
    /\ pc' = AfterPhaseStarted(phase)
    /\ UNCHANGED <<phase, result, meta, stunSent, udp, cfg, ui, tr, listener, now, lat, rxAlive>>
    /\ UNCHANGED tpVars /\ RunFrame

\* latency::run_latency_probes(.. Phase::IdleLatency, None ..) is entered
IdleRun ==
    /\ Quiet
    /\ pc = "phase_run" /\ phase = "IdleLatency"
    /\ now' = 0
    /\ lat' = NewProber(phase, 0)
    /\ pc' = "idle_wait"
    /\ UNCHANGED <<phase, result, meta, phaseLog, stunSent, udp, cfg, ui, tr, listener>>
    /\ UNCHANGED <<evVars, tpVars>> /\ RunFrame

\* .await? on the idle probes, then the Info event of the experimental mode
IdleReturn ==
    /\ Quiet
    /\ pc = "idle_wait" /\ lat.pc = "done"
    /\ phase' = NextPhase(phase)
    /\ pc' = IF experimental THEN "turn_info" ELSE "phase_start"
    /\ UNCHANGED <<result, meta, phaseLog, stunSent, udp, cfg, ui, tr, listener, now, lat>>
    /\ UNCHANGED <<evVars, tpVars>> /\ RunFrame

\* event_tx.send(TestEvent::Info { "Fetching TURN info (experimental)" })
TurnInfoEvent ==
    /\ Quiet
    /\ pc = "turn_info"
    /\ CanSend
    /\ evq' = Push(evq)
    /\ pc' = "phase_start"
    /\ UNCHANGED <<phase, result, meta, phaseLog, stunSent, udp, cfg, ui, tr, listener, now, lat, rxAlive>>
    /\ UNCHANGED tpVars /\ RunFrame

\* run_download_with_loaded_latency / run_upload_with_loaded_latency up to the
\* sampling loop: spawn the workers and the loaded-latency task, start = now
ThroughputRun ==
    /\ Quiet
    /\ pc = "phase_run" /\ phase \in {"Download", "Upload"}
    /\ now' = 0
    /\ stop' = FALSE
    /\ total' = 0
    /\ adds' = 0
    /\ wk' = SpawnWorkers
    /\ lat' = NewProber(phase, 0)
    /\ samp' = [NoSampler EXCEPT !.phase = phase]
    /\ tput' = None
    /\ cancelAtSpawn' = cancel
    /\ pc' = "tp_loop"
    /\ UNCHANGED <<phase, result, meta, phaseLog, stunSent, udp, cfg, ui, tr, listener>>
    /\ UNCHANGED evVars /\ RunFrame

\* if self.cfg.experimental { if let Ok(info) = fetch_turn(&client).await {..} }
Turn ==
    /\ Quiet
    /\ pc = "turn"
    /\ \E ok \in BOOLEAN : pc' = IF experimental /\ ok THEN "stun" ELSE "abort"
    /\ UNCHANGED <<phase, result, meta, phaseLog, stunSent, udp, cfg, ui, tr, listener, now, lat>>
    /\ UNCHANGED <<evVars, tpVars>> /\ RunFrame

\* run_udp_like_loss_probe fails before its loop (no URL, DNS, bind): .ok()
StunSetupFails ==
    /\ Quiet
    /\ pc = "stun" /\ stunSent = 0
    /\ pc' = "abort"
    /\ UNCHANGED <<phase, result, meta, phaseLog, stunSent, udp, cfg, ui, tr, listener, now, lat>>
    /\ UNCHANGED <<evVars, tpVars>> /\ RunFrame

\* for _ in 0..attempts { sent += 1; send; recv with timeout; sleep }
StunAttempt ==
    /\ Quiet
    /\ pc = "stun"
    /\ IF stunSent < StunAttempts
       THEN stunSent' = stunSent + 1 /\ pc' = pc
       ELSE stunSent' = stunSent /\ pc' = "abort"
    /\ UNCHANGED <<phase, result, meta, phaseLog, udp, cfg, ui, tr, listener, now, lat>>
    /\ UNCHANGED <<evVars, tpVars>> /\ RunFrame

\* control_handle.abort(); Ok(RunResult {..})
AbortAndReturn ==
    /\ Quiet
    /\ pc = "abort"
    /\ listener' = IF listener = "running" THEN "aborted" ELSE listener
    /\ pc' = "returned"
    /\ result' = "Ok"
    /\ UNCHANGED <<phase, meta, phaseLog, stunSent, udp, cfg, ui, tr, now, lat>>
    /\ UNCHANGED <<evVars, tpVars>> /\ RunFrame

Orchestrator ==
    \/ EngineNew \/ FetchMeta \/ EmitMeta \/ SpawnListener \/ PhaseStart
    \/ IdleRun \/ IdleReturn \/ TurnInfoEvent \/ ThroughputRun
    \/ Turn \/ StunSetupFails \/ StunAttempt \/ AbortAndReturn

\* time passes while a phase runs; the clock of a phase stops one step after
\* the deadline of the phase
InPhase == pc \in {"idle_wait", "tp_loop", "tp_wait", "tp_emit", "tp_sleep",
                   "tp_join", "tp_recv"}

Tick ==
    /\ Quiet
    /\ InPhase
    /\ now < PhaseDuration(phase) + ClockStep
    /\ now' = now + ClockStep
    /\ UNCHANGED lat
    /\ UNCHANGED <<ctlVars, evVars, runVars, tpVars>>

Init ==
    /\ pc = "new"
    /\ phase = "IdleLatency"
    /\ result = "running"
    /\ ui = "loop"
    /\ meta = "unknown"
    /\ paused = FALSE
    /\ cancel = FALSE
    /\ listener = "unspawned"
    /\ ctl = <<>>
    /\ ctlOpen = TRUE
    /\ evq = 0
    /\ rxAlive = TRUE
    /\ now = 0
    /\ lat = NoProber
    /\ cfg = DefaultCfg
    /\ wk = NoWorkers
    /\ total = 0
    /\ adds = 0
    /\ stop = FALSE
    /\ samp = NoSampler
    /\ tput = None
    /\ phaseLog = <<>>
    /\ stunSent = 0
    /\ udp = NoUdp
    /\ tr = NoTrace
    /\ cancelAtSpawn = FALSE

\* a step of the engine, of its tasks, of the user interface or of the clock
Environment ==
    \/ ListenerClosed
    \/ \E m \in ControlMsgs : UserSend(m)
    \/ UserClose
    \/ EvDrop
    \/ Tick

\* the run with the latency prober step by step, the workers seen from outside
Step ==
    \/ Orchestrator
    \/ Sampler
    \/ Prober
    \/ WorkersOutside
    \/ Environment

Next ==
    \/ EvRecv
    \/ ListenerRecv
    \/ Step

Spec == Init /\ [][Next]_vars

(* ------------------ the run of a user who pauses and cancels --------- *)
\* a sleep of the sampling loop or of the prober has not ended yet
Sleeping ==
    \/ pc = "tp_sleep" /\ now < samp.wake
    \/ lat.pc = "sleep" /\ now < lat.wake

\* time passes while a phase runs: here the clock does not stop before the
\* sleeps that have begun have ended
TickOn ==
    /\ Quiet
    /\ InPhase
    /\ now < PhaseDuration(phase) + ClockStep \/ Sleeping
    /\ now' = now + ClockStep
    /\ UNCHANGED lat
    /\ UNCHANGED <<ctlVars, evVars, runVars, tpVars>>

\* The user pauses, cancels, and never resumes; the consumer keeps its
\* receiver.
NextLive ==
    \/ EvRecv
    \/ ListenerRecv
    \/ Orchestrator
    \/ Sampler
    \/ Prober
    \/ WorkersOutside
    \/ UserSend("Pause(true)")
    \/ UserSend("Cancel")
    \/ TickOn

\* The runtime schedules every task that can run: run() with the sampling
\* loop it executes, the latency task, the workers, the control listener;
\* the consumer takes the events queued for it, and time passes.
Fairness ==
    /\ WF_vars(Orchestrator \/ Sampler)
    /\ WF_vars(Prober)
    /\ WF_vars(WorkersOutside)
    /\ WF_vars(ListenerRecv)
    /\ WF_vars(EvRecv)
    /\ WF_vars(TickOn)

SpecLive == Init /\ [][NextLive]_vars /\ Fairness

(* ---------------------- the rerun key of the TUI ---------------------- *)
\* ctx.ctrl_tx.send(EngineControl::Cancel).await.ok(), after which the front
\* end is at `let _ = h.await`: it holds the event receiver and takes
\* nothing from it.  select! may run this branch while events are queued.
UiRerun ==
    /\ ui = "loop"
    /\ pc # "returned"
    /\ IF listener \in {"exited", "aborted"}
       THEN UNCHANGED ctl
       ELSE Len(ctl) < CtlCap /\ ctl' = Append(ctl, "Cancel")
    /\ ui' = "await"
    /\ UNCHANGED <<paused, cancel, listener, ctlOpen, now, lat>>
    /\ UNCHANGED <<evVars, tpVars>>
    /\ UNCHANGED <<pc, phase, result, meta, phaseLog, stunSent, udp, cfg, tr>>

\* h.await returns once run() has returned; then the state is cleared and
\* run_ctx = Some(start_run(&args).await?) starts the next engine
UiJoined ==
    /\ ui = "await"
    /\ pc = "returned"
    /\ ui' = "restarted"
    /\ UNCHANGED <<now, lat>>
    /\ UNCHANGED <<ctlVars, evVars, tpVars>>
    /\ UNCHANGED <<pc, phase, result, meta, phaseLog, stunSent, udp, cfg, tr>>

NextRerun ==
    \/ EvRecv
    \/ ListenerRecv
    \/ Orchestrator
    \/ Sampler
    \/ Prober
    \/ WorkersOutside
    \/ Tick
    \/ UiRerun
    \/ UiJoined

SpecRerun == Init /\ [][NextRerun]_vars

\* the run with the workers step by step, the latency prober seen from outside
StepTransfer ==
    \/ Orchestrator
    \/ Sampler
    \/ ProberOutside
    \/ ProberLost
    \/ TpRecvErr
    \/ Worker
    \/ Environment

NextTransfer ==
    \/ EvRecv
    \/ ListenerRecv
    \/ StepTransfer

SpecTransfer == Init /\ [][NextTransfer]_vars

(* ------------------------ the estimator on its own -------------------- *)
\* Ticks are at least one sampler interval apart (more after a pause), and the
\* phase ends at least one interval after its last tick.
TickGaps == {SampleIntervalMs, RampFloorMs}
ByteGains == {0, 1500}
TailWaits == {SampleIntervalMs, 5 * RampFloorMs}

\* A 10 s phase with a tick every 200 ms: no byte during the first 2 s, then a
\* constant 100 Mbps (12500 bytes per ms).
ExampleTicks == 10000 \div SampleIntervalMs
ExampleTime(i) == (i - 1) * SampleIntervalMs
ExampleBytes(i) ==
    IF ExampleTime(i) <= 2000 THEN 0 ELSE 12500 * (ExampleTime(i) - 2000)
RECURSIVE ExampleSampler(_)
ExampleSampler(n) ==
    IF n = 0 THEN [NoSampler EXCEPT !.phase = "Download"]
    ELSE TakeSample(ExampleSampler(n - 1), ExampleTime(n), ExampleBytes(n))

InitSteady ==
    /\ pc = "estimator"
    /\ phase = "Download"
    /\ result = "running"
    /\ ui = "loop"
    /\ meta = "unknown"
    /\ paused = FALSE
    /\ cancel = FALSE
    /\ listener = "unspawned"
    /\ ctl = <<>>
    /\ ctlOpen = TRUE
    /\ evq = 0
    /\ rxAlive = TRUE
    /\ lat = NoProber
    /\ cfg = DefaultCfg
    /\ wk = NoWorkers
    /\ adds = 0
    /\ stop = FALSE
    /\ tput = None
    /\ phaseLog = <<>>
    /\ stunSent = 0
    /\ udp = NoUdp
    /\ tr = NoTrace
    /\ cancelAtSpawn = FALSE
    /\ \/ samp = [NoSampler EXCEPT !.phase = "Download"] /\ now = 0 /\ total = 0
       \/ /\ samp = ExampleSampler(ExampleTicks)
          /\ now = ExampleTime(ExampleTicks)
          /\ total = ExampleBytes(ExampleTicks)

SteadyFrame ==
    UNCHANGED <<pc, phase, result, meta, paused, cancel, listener, ctl, ctlOpen,
                evq, rxAlive, lat, wk, adds, stop, phaseLog, stunSent, udp, cfg, ui, tr,
                cancelAtSpawn>>

\* one more pass of the sampling loop: samples.push((Instant::now(), now_total))
SteadySample ==
    /\ pc = "estimator" /\ tput = None
    /\ Len(samp.samples) < MaxSamples
    /\ \E gap \in TickGaps, gain \in ByteGains :
         /\ now' = IF samp.samples = <<>> THEN now ELSE now + gap
         /\ total' = total + gain
         /\ samp' = TakeSample(samp, now', total')
    /\ UNCHANGED tput /\ SteadyFrame

\* the loop has ended: duration = start.elapsed(); bytes_total = total.load();
\* estimate_steady_window(..).unwrap_or(..); throughput_summary(..)
SteadyFinish ==
    /\ pc = "estimator" /\ tput = None
    /\ \E w \in TailWaits :
         /\ now' = now + w
         /\ tput' = Some([ bytes_total |-> total,
                           duration |-> now' - samp.start,
                           summary |-> PhaseSummary(samp.samples, now' - samp.start, total) ])
    /\ UNCHANGED <<samp, total>> /\ SteadyFrame

NextSteady == SteadySample \/ SteadyFinish

SpecSteady == InitSteady /\ [][NextSteady]_vars

(* -------------------- the latency statistics on their own ------------- *)
\* round-trip times from below a microsecond to above a minute, in ms
StatsRttMs == {0, 2, 20, 3000, 70000}

InitStats ==
    /\ pc = "stats"
    /\ phase = "IdleLatency"
    /\ result = "running"
    /\ ui = "loop"
    /\ meta = "unknown"
    /\ paused = FALSE
    /\ cancel = FALSE
    /\ listener = "unspawned"
    /\ ctl = <<>>
    /\ ctlOpen = TRUE
    /\ evq = 0
    /\ rxAlive = TRUE
    /\ now = 0
    /\ lat = NewProber("IdleLatency", 0)
    /\ cfg = DefaultCfg
    /\ wk = NoWorkers
    /\ total = 0
    /\ adds = 0
    /\ stop = FALSE
    /\ samp = NoSampler
    /\ tput = None
    /\ phaseLog = <<>>
    /\ stunSent = 0
    /\ udp = NoUdp
    /\ tr = NoTrace
    /\ cancelAtSpawn = FALSE

StatsFrame ==
    UNCHANGED <<pc, phase, result, meta, paused, cancel, listener, ctl, ctlOpen,
                evq, rxAlive, now, wk, total, adds, stop, samp, tput, phaseLog,
                stunSent, udp, cfg, ui, tr, cancelAtSpawn>>

\* one pass of a probe loop: sent += 1, the probe, its sample
StatsAttempt ==
    /\ pc = "stats" /\ lat.pc = "top"
    /\ lat.sent < MaxProbes
    /\ LET issued == [lat EXCEPT !.sent = @ + 1] IN
         \E after \in {ProbeOk(issued, ms, FALSE) : ms \in StatsRttMs}
                          \cup {ProbeErr(issued)} :
             lat' = [SampleSent(after) EXCEPT !.pc = "top", !.wake = 0]
    /\ StatsFrame

\* the loop is left and the summary computed
StatsFinish ==
    /\ pc = "stats" /\ lat.pc = "top"
    /\ lat' = Finish(lat)
    /\ StatsFrame

NextStats == StatsAttempt \/ StatsFinish

SpecStats == InitStats /\ [][NextStats]_vars

(* ---------------------- the STUN loss probe on its own ---------------- *)
\* run() has reached run_udp_like_loss_probe and the socket is connected
InitStun ==
    /\ pc = "stun"
    /\ phase = "Summary"
    /\ result = "running"
    /\ ui = "loop"
    /\ meta = "settled"
    /\ paused = FALSE
    /\ cancel = FALSE
    /\ listener = "running"
    /\ ctl = <<>>
    /\ ctlOpen = TRUE
    /\ evq = 0
    /\ rxAlive = TRUE
    /\ now = 0
    /\ lat = NoProber
    /\ cfg = DefaultCfg
    /\ wk = NoWorkers
    /\ total = 0
    /\ adds = 0
    /\ stop = FALSE
    /\ samp = NoSampler
    /\ tput = None
    /\ phaseLog = Phases
    /\ stunSent = 0
    /\ udp = [NoUdp EXCEPT !.pc = "top"]
    /\ tr = NoTrace
    /\ cancelAtSpawn = FALSE

NextStun ==
    \/ StunSend \/ StunArrive \/ StunRecv \/ StunTimeout \/ StunSleep
    \/ StunDone

SpecStun == InitStun /\ [][NextStun]_vars

(* ------------- the STUN probe receiving a single datagram ------------- *)
\* The datagrams under test: a 32-byte message with any of these type bytes,
\* cookies and transaction ids, cut to any of these lengths.
TestLengths == {0, 8, 19, 20, 32}
TestTypes == {<<0, 1>>, <<1, 0>>, <<1, 1>>, <<1, 17>>}
TestCookies == {MagicCookie} \cup {[MagicCookie EXCEPT ![i] = 0] : i \in 1..4}
TestTxids == {Txid, OldTxid, [Txid EXCEPT ![1] = 160]}
TestDatagrams ==
    { SubSeq(ty \o <<0, 12>> \o ck \o id \o XorMappedAddress, 1, n) :
        ty \in TestTypes, ck \in TestCookies, id \in TestTxids,
        n \in TestLengths }

\* the first attempt has sent its request and a datagram is on the socket
InitDatagram ==
    /\ pc = "stun"
    /\ phase = "Summary"
    /\ result = "running"
    /\ ui = "loop"
    /\ meta = "settled"
    /\ paused = FALSE
    /\ cancel = FALSE
    /\ listener = "running"
    /\ ctl = <<>>
    /\ ctlOpen = TRUE
    /\ evq = 0
    /\ rxAlive = TRUE
    /\ now = 0
    /\ lat = NoProber
    /\ cfg = DefaultCfg
    /\ wk = NoWorkers
    /\ total = 0
    /\ adds = 0
    /\ stop = FALSE
    /\ samp = NoSampler
    /\ tput = None
    /\ phaseLog = Phases
    /\ stunSent = 1
    /\ \E d \in TestDatagrams :
         udp = [NoUdp EXCEPT !.pc = "recv", !.inbox = <<d>>]
    /\ tr = NoTrace
    /\ cancelAtSpawn = FALSE

NextDatagram == StunRecv \/ StunSleep

SpecDatagram == InitDatagram /\ [][NextDatagram]_vars

(* -------------------- build_icmp_packet on its own -------------------- *)
\* every variable of the engine at rest, but pc, udp, cfg and tr
EngineAtRest ==
    /\ phase = "IdleLatency"
    /\ result = "running"
    /\ ui = "loop"
    /\ meta = "unknown"
    /\ paused = FALSE
    /\ cancel = FALSE
    /\ listener = "unspawned"
    /\ ctl = <<>>
    /\ ctlOpen = TRUE
    /\ evq = 0
    /\ rxAlive = TRUE
    /\ now = 0
    /\ lat = NoProber
    /\ wk = NoWorkers
    /\ total = 0
    /\ adds = 0
    /\ stop = FALSE
    /\ samp = NoSampler
    /\ tput = None
    /\ phaseLog = <<>>
    /\ stunSent = 0
    /\ cancelAtSpawn = FALSE

\* identifiers (the process id as u16) and sequence numbers
\* ((ttl << 8) | probe_num, and others)
IcmpIds == {0, 1, 236, 237, 255, 256, 4660, 32767, 32768, 65279, 65534, 65535}
IcmpSeqs == {0, 1, 2, 256, 257, 258, 7680, 7682, 32768, 65280, 65282, 65535}

InitIcmp ==
    /\ pc = "icmp"
    /\ cfg = DefaultCfg
    /\ EngineAtRest
    /\ udp = NoUdp
    /\ \E id \in IcmpIds, seq \in IcmpSeqs :
         tr = [pc |-> "build", id |-> id, seq |-> seq, packet |-> <<>>]

\* let packet = build_icmp_packet(icmp_id, icmp_seq)
BuildPacket ==
    /\ pc = "icmp" /\ tr.pc = "build"
    /\ tr' = [tr EXCEPT !.pc = "built",
                        !.packet = build_icmp_packet(tr.id, tr.seq)]
    /\ UNCHANGED <<pc, phase, result, meta, phaseLog, stunSent, udp, cfg, ui>>
    /\ UNCHANGED <<now, lat, ctlVars, evVars, tpVars>>

NextIcmp == BuildPacket

SpecIcmp == InitIcmp /\ [][NextIcmp]_vars

(* ----------------------- run_traceroute on its own -------------------- *)
MaxHops == 2

InitTrace ==
    /\ pc = "traceroute"
    /\ cfg = DefaultCfg
    /\ EngineAtRest
    /\ udp = NoUdp
    /\ \E d \in Destinations, max_hops \in 0..MaxHops :
         tr = NewTrace(d, max_hops)

NextTrace ==
    \/ EvRecv
    \/ TraceResolve \/ IcmpOpen \/ IcmpProbeHop \/ IcmpEmit \/ IcmpReturn
    \/ FallbackInfo \/ SystemSpawnFails \/ CommandProbe \/ CommandExit
    \/ SystemParse \/ SystemReturn

SpecTrace == InitTrace /\ [][NextTrace]_vars

(* ------------------- the start of run() on its own -------------------- *)
\* run() is called with any configuration and goes as far as its first
\* PhaseStarted event
InitNew ==
    /\ pc = "new"
    /\ cfg \in RunConfigs
    /\ EngineAtRest
    /\ udp = NoUdp
    /\ tr = NoTrace

NextNew ==
    \/ EvRecv
    \/ EngineNew \/ FetchMeta \/ EmitMeta \/ SpawnListener \/ PhaseStart

SpecNew == InitNew /\ [][NextNew]_vars

(* ------------- a throughput phase on its own, two ticks long ---------- *)
\* run() has announced a throughput phase and is about to enter its function;
\* the configured duration of the phase is one sampler interval longer than
\* in the other specifications, and nobody pauses or cancels.
LongPhase == (PhaseTicks + 1) * ClockStep
\* body sizes: no chunk, a tail alone, full chunks alone, full chunks and a
\* tail
UploadSizes ==
    {0, 1000, UPLOAD_CHUNK_SIZE, UPLOAD_CHUNK_SIZE + 1000, 2 * UPLOAD_CHUNK_SIZE}

InitCounter ==
    /\ pc = "phase_run"
    /\ \E i \in {2, 3} : phase = Phases[i] /\ phaseLog = SubSeq(Phases, 1, i)
    /\ result = "running"
    /\ ui = "loop"
    /\ meta = "settled"
    /\ paused = FALSE
    /\ cancel = FALSE
    /\ listener = "running"
    /\ ctl = <<>>
    /\ ctlOpen = TRUE
    /\ evq = 0
    /\ rxAlive = TRUE
    /\ now = 0
    /\ lat = NoProber
    /\ \E n \in UploadSizes :
         cfg = [DefaultCfg EXCEPT !.download_duration = LongPhase,
                                  !.upload_duration = LongPhase,
                                  !.upload_bytes_per_req = n]
    /\ wk = NoWorkers
    /\ total = 0
    /\ adds = 0
    /\ stop = FALSE
    /\ samp = NoSampler
    /\ tput = None
    /\ stunSent = 0
    /\ udp = NoUdp
    /\ tr = NoTrace
    /\ cancelAtSpawn = FALSE

NextCounter ==
    \/ EvRecv
    \/ ThroughputRun
    \/ TpLoop \/ TpWait \/ TpEmit \/ TpSleep \/ TpJoin
    \/ Worker
    \/ Tick

SpecCounter == InitCounter /\ [][NextCounter]_vars

(* ------------------- the target of the STUN loss probe ---------------- *)
\* A URL is the sequence of its characters.
Digits == <<"0", "1", "2", "3", "4", "5", "6", "7", "8", "9">>
IsDigit(c) == \E i \in DOMAIN Digits : Digits[i] = c
DigitValue(c) == (CHOOSE i \in DOMAIN Digits : Digits[i] = c) - 1

\* str::starts_with
starts_with(u, prefix) ==
    Len(u) >= Len(prefix) /\ SubSeq(u, 1, Len(prefix)) = prefix

\* str::split_once(c): the text before and after the first c, if there is one
split_once(u, c) ==
    LET at == {i \in 1..Len(u) : u[i] = c} IN
    IF at = {} THEN None
    ELSE LET i == CHOOSE i \in at : \A j \in at : i <= j
         IN  Some(<<SubSeq(u, 1, i - 1), SubSeq(u, i + 1, Len(u))>>)

\* str::parse::<u16>() of a text without sign
RECURSIVE DecimalValue(_)
DecimalValue(t) ==
    IF t = <<>> THEN 0
    ELSE 10 * DecimalValue(SubSeq(t, 1, Len(t) - 1)) + DigitValue(t[Len(t)])
parse_u16(t) ==
    IF t = <<>> \/ Len(t) > 5 \/ \E i \in 1..Len(t) : ~IsDigit(t[i]) THEN None
    ELSE IF DecimalValue(t) > 65535 THEN None
    ELSE Some(DecimalValue(t))

StunPrefix == <<"s", "t", "u", "n", ":">>
TurnPrefix == <<"t", "u", "r", "n", ":">>
\* the first element of urls that starts with prefix
FirstWith(urls, prefix) ==
    LET at == {i \in 1..Len(urls) : starts_with(urls[i], prefix)} IN
    IF at = {} THEN None
    ELSE Some(urls[CHOOSE i \in at : \A j \in at : i <= j])

\* a choice that takes the first URL of either kind
pick_stun_target_FirstOfEither(urls) ==
    LET at == {i \in 1..Len(urls) :
                 starts_with(urls[i], StunPrefix) \/ starts_with(urls[i], TurnPrefix)}
    IN  IF at = {} THEN None
        ELSE Some(urls[CHOOSE i \in at : \A j \in at : i <= j])

\* fn pick_stun_target(turn: &TurnInfo) -> Option<String>
pick_stun_target(urls) ==
    IF FirstWith(urls, StunPrefix) # None THEN FirstWith(urls, StunPrefix)
    ELSE FirstWith(urls, TurnPrefix)

DEFAULT_STUN_PORT == 3478
\* fn parse_host_port(url: &str) -> Result<(String, u16)>: Some(<<host, port>>)
\* for Ok, None for Err
parse_host_port(url) ==
    IF split_once(url, ":") = None THEN None
    ELSE LET rest == split_once(url, ":")[1][2]
             hostport == IF split_once(rest, "?") = None THEN rest
                         ELSE split_once(rest, "?")[1][1]
             host == IF split_once(hostport, ":") = None THEN hostport
                     ELSE split_once(hostport, ":")[1][1]
             port_str == IF split_once(hostport, ":") = None THEN <<>>
                         ELSE split_once(hostport, ":")[1][2]
         IN  IF host = <<>> THEN None
             ELSE IF port_str = <<>> THEN Some(<<host, DEFAULT_STUN_PORT>>)
             ELSE IF parse_u16(port_str) = None THEN None
             ELSE Some(<<host, parse_u16(port_str)[1]>>)

\* the URLs of a /__turn answer: stun:h, stun:h:53, turn:t?u, turn:t:3478?u,
\* turns:t:5349, stun: and stun:h:70000
TestUrls ==
    { <<"s", "t", "u", "n", ":", "h">>,
      <<"s", "t", "u", "n", ":", "h", ":", "5", "3">>,
      <<"t", "u", "r", "n", ":", "t", "?", "u">>,
      <<"t", "u", "r", "n", ":", "t", ":", "3", "4", "7", "8", "?", "u">>,
      <<"t", "u", "r", "n", "s", ":", "t", ":", "5", "3", "4", "9">>,
      <<"s", "t", "u", "n", ":">>,
      <<"s", "t", "u", "n", ":", "h", ":", "7", "0", "0", "0", "0">> }
\* the longest list of URLs
MaxUrls == 3
UrlLists == UNION {[1..n -> TestUrls] : n \in 0..MaxUrls}

InitTarget ==
    /\ pc = "stun"
    /\ phase = "Summary"
    /\ result = "running"
    /\ ui = "loop"
    /\ meta = "settled"
    /\ paused = FALSE
    /\ cancel = FALSE
    /\ listener = "running"
    /\ ctl = <<>>
    /\ ctlOpen = TRUE
    /\ evq = 0
    /\ rxAlive = TRUE
    /\ now = 0
    /\ lat = NoProber
    /\ cfg = DefaultCfg
    /\ wk = NoWorkers
    /\ total = 0
    /\ adds = 0
    /\ stop = FALSE
    /\ samp = NoSampler
    /\ tput = None
    /\ phaseLog = Phases
    /\ stunSent = 0
    /\ \E urls \in UrlLists :
         udp = [ pc |-> "pick", urls |-> urls, target |-> None, addr |-> None,
                 received |-> 0, samples |-> <<>>, buf |-> <<>>,
                 inbox |-> <<>>, replied |-> FALSE, ok |-> FALSE,
                 early |-> FALSE, summary |-> None ]
    /\ tr = NoTrace
    /\ cancelAtSpawn = FALSE

\* let target_url = pick_stun_target(turn).context("no stun/turn url in
\* /__turn")?; the error ends the probe, and run() drops it with .ok()
StunPick ==
    /\ pc = "stun" /\ udp.pc = "pick"
    /\ LET target_url == pick_stun_target(udp.urls) IN
         /\ udp' = [udp EXCEPT !.target = target_url,
                               !.pc = IF target_url = None THEN "failed"
                                      ELSE "parse"]
         /\ pc' = IF target_url = None THEN "abort" ELSE pc
    /\ UNCHANGED stunSent /\ StunFrame

\* let (host, port) = parse_host_port(&target_url)?
StunParse ==
    /\ pc = "stun" /\ udp.pc = "parse"
    /\ LET hp == parse_host_port(udp.target[1]) IN
         /\ udp' = [udp EXCEPT !.addr = hp,
                               !.pc = IF hp = None THEN "failed" ELSE "connect"]
         /\ pc' = IF hp = None THEN "abort" ELSE pc
    /\ UNCHANGED stunSent /\ StunFrame

\* lookup_host((host, port)), UdpSocket::bind, sock.connect: each may fail
StunConnect ==
    /\ pc = "stun" /\ udp.pc = "connect"
    /\ \E ok \in BOOLEAN :
         /\ udp' = [udp EXCEPT !.pc = IF ok THEN "top" ELSE "failed"]
         /\ pc' = IF ok THEN pc ELSE "abort"
    /\ UNCHANGED stunSent /\ StunFrame

NextTarget == StunPick \/ StunParse \/ StunConnect \/ StunSend

SpecTarget == InitTarget /\ [][NextTarget]_vars

(* ------------------------------- claims ------------------------------- *)
IsPrefix(a, b) == Len(a) <= Len(b) /\ a = SubSeq(b, 1, Len(a))
\* LatencySample events the prober of the phase has produced
LatencyEvents(l) == l.evOk + l.evFail

\* C1: the PhaseStarted events come in the order IdleLatency, Download,
\* Upload, Summary, each at most once, and PhaseStarted{P} comes before every
\* LatencySample and every ThroughputTick tagged with P.
C1_PhaseOrder ==
    /\ IsPrefix(phaseLog, Phases)
    /\ LatencyEvents(lat) > 0 => lat.phase \in Range(phaseLog)
    /\ samp.ticks > 0 => samp.phase \in Range(phaseLog)

\* C1, its case: all four phases announced, the upload phase having produced
\* a latency sample and a tick.
C1_Witness ==
    /\ phaseLog = Phases
    /\ LatencyEvents(lat) > 0 /\ lat.phase = "Upload"
    /\ samp.ticks > 0 /\ samp.phase = "Upload"

\* C2: once Cancel was processed the cancel flag stays true, the paused flag
\* never changes again, and a probe loop or sampling loop at its flag check
\* leaves the loop without another probe or tick.
C2_CancelTerminal ==
    [][cancel =>
         /\ cancel'
         /\ paused' = paused
         /\ (lat.pc = "wait" /\ lat' # lat) =>
                (lat'.pc = "done" /\ lat'.sent = lat.sent)
         /\ (pc = "tp_wait" /\ pc' # pc) =>
                (pc' = "tp_join" /\ stop' /\ samp' = samp)]_vars

\* C2, its case: cancelled while paused, in a throughput phase whose probe
\* loop and sampling loop both left at the flag check, before the deadline
\* and without a probe or a tick.
C2_Witness ==
    /\ cancel /\ paused
    /\ pc = "tp_join" /\ samp.ticks = 0
    /\ lat.pc = "done" /\ lat.sent = 0
    /\ now < PhaseDuration(phase)

\* C3: cancellation is no error: a loop that finds the run cancelled at its
\* flag check ends the phase, the summary of the phase is that of exactly the
\* samples collected so far, and run(), once the client is built, returns Ok.
C3_CancelKeepsSummary ==
    [][/\ (cancel /\ lat.pc = "wait" /\ lat' # lat) =>
            lat' = [lat EXCEPT
                      !.pc = "done",
                      !.summary = Some(latency_summary_from_samples(
                                          lat.sent, lat.received, lat.samples))]
       /\ (cancel /\ pc = "tp_wait" /\ pc' # pc) =>
            (pc' = "tp_join" /\ samp'.samples = samp.samples)
       /\ (pc = "tp_join" /\ pc' # pc) =>
            (/\ samp' = samp
             /\ tput' = Some([ bytes_total |-> total,
                               duration |-> now - samp.start,
                               summary |-> PhaseSummary(samp.samples,
                                                        now - samp.start, total) ]))
       /\ cancel' => result' # "Err"
       /\ (pc' = "returned" /\ listener # "unspawned") => result' = "Ok"]_vars

\* C3, its case: the idle phase cancelled before its deadline, after a probe
\* that succeeded; the summary is that of the one sample.
C3_Witness ==
    /\ cancel
    /\ lat.phase = "IdleLatency" /\ lat.pc = "done"
    /\ lat.received = 1
    /\ now < idle_latency_duration

\* C4: once cancel is set, run() starts no transfer in a phase it enters
\* afterwards and makes no attempt of the STUN loss probe.
C4_NoNewWorkAfterCancel ==
    [][cancel =>
         /\ stunSent' = stunSent
         /\ cancelAtSpawn' => InFlight(wk') <= InFlight(wk)]_vars

\* C5: while paused is true and the run is not cancelled the prober's sent
\* and received counters do not grow, and they are never reset.
C5_PausedCountersFrozen ==
    [][/\ (paused /\ ~cancel) =>
            (lat'.sent <= lat.sent /\ lat'.received <= lat.received)
       /\ lat.pc \notin {"off", "done"} =>
            (lat'.sent >= lat.sent /\ lat'.received >= lat.received)]_vars

\* C5 as amended: while paused is true and the run is not cancelled, a prober
\* at its flag check stays there with its locals unchanged; sent grows only by
\* the attempt whose flag check had already passed and received only by the
\* probe already in flight; the counters of a running prober never decrease.
C5_PausedProberWaits ==
    [][/\ (paused /\ ~cancel) =>
            /\ lat.pc = "wait" => lat' = lat
            /\ lat'.sent > lat.sent => (lat.pc = "issue" /\ lat'.pc = "inflight")
            /\ lat'.received > lat.received =>
                  (lat.pc = "inflight" /\ lat'.sent = lat.sent)
       /\ lat.pc \notin {"off", "done"} =>
            /\ lat'.sent \in {lat.sent, lat.sent + 1}
            /\ lat'.received \in {lat.received, lat.received + 1}
            /\ IsPrefix(lat.samples, lat'.samples)]_vars

\* C5, its case: a prober held at its flag check by a pause, its counters as
\* an earlier successful attempt left them.
C5_Witness ==
    /\ paused /\ ~cancel
    /\ lat.pc = "wait"
    /\ lat.sent = 1 /\ lat.received = 1

\* C6: while paused is true the workers issue no new request and the shared
\* byte counter does not grow.
C6_PausedWorkersIdle ==
    [][paused =>
         /\ total' <= total
         /\ wk # NoWorkers => InFlight(wk') <= InFlight(wk)]_vars

\* the first sample at or after the ramp-up cutoff, 0 when there is none
FirstAfterRamp(samples, total_duration) ==
    LET hit == {i \in DOMAIN samples :
                  5 * (samples[i][1] - samples[1][1])
                      >= Max(total_duration, 5 * RampFloorMs)}
    IN IF hit = {} THEN 0 ELSE CHOOSE i \in hit : \A j \in hit : i <= j

\* the window from sample i to the last sample: <<bytes, time>>
WindowFrom(samples, i) ==
    <<samples[Len(samples)][2] - samples[i][2],
      samples[Len(samples)][1] - samples[i][1]>>

\* C7: a window returned by estimate_steady_window runs from the first sample
\* at or after first + max(20% of the duration, 1 s) to the last sample, and
\* is (bytes at end - bytes at start, time at end - time at start); the 10 s
\* example yields exactly 100 Mbps (100000 bits per ms).
C7_WindowAfterRamp ==
    tput # None =>
        LET w == estimate_steady_window(samp.samples, tput[1].duration)
            i == FirstAfterRamp(samp.samples, tput[1].duration)
        IN /\ w # None => (i # 0 /\ w = Some(WindowFrom(samp.samples, i)))
           /\ Len(samp.samples) = ExampleTicks =>
                 tput[1].summary.bits = 100000 * tput[1].summary.duration_ms

\* C8: the phase summary is the whole-phase average exactly when there are
\* fewer than two samples or the window after the ramp-up (empty when no
\* sample reaches the cutoff) is shorter than 200 ms; else it is the value of
\* that window.
C8_FallbackExactly ==
    tput # None =>
        LET i == FirstAfterRamp(samp.samples, tput[1].duration)
            short == \/ Len(samp.samples) < 2
                     \/ i = 0
                     \/ WindowFrom(samp.samples, i)[2] < MinWindowMs
            whole == throughput_summary(tput[1].bytes_total, tput[1].duration)
        IN /\ (tput[1].summary = whole) <=> short
           /\ ~short =>
                 tput[1].summary =
                     throughput_summary(WindowFrom(samp.samples, i)[1],
                                        WindowFrom(samp.samples, i)[2])

\* C9: stop is set only once the sampling loop has ended, and the total of
\* the phase summary is read only once every worker has ended, so that it is
\* the final value of the byte counter.
C9_StopThenJoinThenRead ==
    /\ stop => pc \notin {"tp_loop", "tp_wait", "tp_emit", "tp_sleep"}
    /\ tput # None =>
          (Joined(wk) /\ stop /\ tput[1].bytes_total = total)

\* C9, its case: a phase summarised after its workers, which added bytes,
\* have all ended.
C9_Witness ==
    /\ tput # None /\ tput[1].bytes_total > 0
    /\ wk[WkAt("done", 0)] = Concurrency
    /\ stop

\* C10: in a probe loop received <= sent, the retained samples are as many
\* as received, and each attempt produces exactly one LatencySample event,
\* ok=true for a success and ok=false otherwise: between attempts the events
\* are as many as sent and the ok=true ones as many as received.
C10_ProbeCounters ==
    LET pending == IF lat.pc \in {"inflight", "emit_meta", "emit"} THEN 1 ELSE 0
        pendingOk == IF lat.pc \in {"emit_meta", "emit"} /\ lat.lastOk THEN 1 ELSE 0
    IN /\ lat.received <= lat.sent
       /\ Len(lat.samples) = lat.received
       /\ LatencyEvents(lat) = lat.sent - pending
       /\ lat.evOk = lat.received - pendingOk

\* C10, its case: a finished loop of two attempts, one answered, one not.
C10_Witness ==
    /\ lat.pc = "done"
    /\ lat.sent = 2 /\ lat.received = 1
    /\ lat.evOk = 1 /\ lat.evFail = 1

\* C11: a failed or timed-out probe becomes a failed sample (one ok=false
\* event, no RTT retained) and the loop goes on: it is left only at its head
\* once the duration has elapsed, or at the flag check once the run is
\* cancelled; a loop all of whose probes failed still hands over a summary
\* (received = 0, loss = 1, no statistics) and run() does not fail for it.
C11_FailedProbeIsSample ==
    [][/\ (lat.pc = "inflight" /\ lat' # lat /\ lat'.received = lat.received) =>
            lat' = [lat EXCEPT !.pc = "emit", !.lastOk = FALSE]
       /\ (lat.pc = "emit" /\ ~lat.lastOk /\ lat' # lat) =>
            (/\ lat'.pc = "sleep"
             /\ lat'.evFail = lat.evFail + 1
             /\ lat'.samples = lat.samples)
       /\ (lat.pc \notin {"off", "done"} /\ lat'.pc = "done") =>
            \/ lat.pc = "top" /\ now - lat.start >= PhaseDuration(lat.phase)
            \/ lat.pc = "wait" /\ cancel
       /\ (lat'.pc = "done" /\ lat'.sent > 0 /\ lat'.received = 0) =>
            (/\ lat'.summary # None
             /\ lat'.summary[1].sent = lat'.sent
             /\ lat'.summary[1].received = 0
             /\ lat'.summary[1].loss = <<lat'.sent, lat'.sent>>
             /\ lat'.summary[1].min_us = None
             /\ lat'.summary[1].max_us = None)
       /\ (lat.evFail > 0 /\ pc' = "returned") => result' = "Ok"]_vars

\* C11, its case: run() has returned Ok after a last phase in which every
\* probe failed, the run not being cancelled.
C11_Witness ==
    /\ result = "Ok"
    /\ lat.pc = "done" /\ lat.sent >= 1 /\ lat.received = 0
    /\ lat.evFail = lat.sent
    /\ ~cancel

StatsOf(s) == <<s.min_us, s.p50_us, s.p90_us, s.p99_us, s.max_us>>

\* C13: the summary of an empty sample set has no min, percentile or max, the
\* summary of a non-empty one has them all, and they are read from a
\* histogram that holds every sample.
C13_EmptyHasNoStatistics ==
    lat.summary # None =>
        LET s == lat.summary[1] IN
        /\ lat.samples = <<>> => \A i \in 1..5 : StatsOf(s)[i] = None
        /\ lat.samples # <<>> =>
              /\ \A i \in 1..5 : StatsOf(s)[i] # None
              /\ Len(Recorded(lat.samples)) = Len(lat.samples)

\* C13, its case: the summary of a loop whose two probes both failed.
C13_Witness ==
    /\ lat.summary # None
    /\ lat.sent = 2 /\ lat.samples = <<>>
    /\ lat.summary[1].min_us = None

\* C14: the statistics of a non-empty sample set are ordered,
\* min <= p50 <= p90 <= p99 <= max, each sample counting as its value in
\* microseconds clamped to 1 .. 60 000 000.
C14_OrderedStatistics ==
    (lat.summary # None /\ lat.samples # <<>>) =>
        LET st == StatsOf(lat.summary[1])
            us == Recorded(lat.samples)
        IN /\ \A i \in 1..4 : st[i][1] <= st[i + 1][1]
           /\ \A i \in DOMAIN us :
                 /\ 1 <= us[i] /\ us[i] <= HighestTrackableUs
                 /\ st[1][1] <= us[i] /\ us[i] <= st[5][1]
           /\ \E i \in DOMAIN us : lowest_equivalent(us[i]) = st[1][1]
           /\ \E i \in DOMAIN us : highest_equivalent(us[i]) = st[5][1]

\* C14, its case: three samples in three buckets, one clamped from below and
\* one from above.
C14_Witness ==
    /\ lat.summary # None
    /\ Range(lat.samples) = {0, 20, 70000}
    /\ lat.summary[1].min_us = Some(1)
    /\ lat.summary[1].p50_us = Some(20015)
    /\ lat.summary[1].max_us[1] >= HighestTrackableUs

\* C15: once the event receiver is dropped it stays dropped, every later send
\* leaves the channel as it is and returns at once, no sender waits for
\* capacity, and run(), once its client is built, still announces all four
\* phases and returns Ok.
C15_DroppedReceiver ==
    [][~rxAlive =>
         /\ ~rxAlive'
         /\ evq' = evq
         /\ (Quiet /\ pc = "meta_emit") => ENABLED EmitMeta
         /\ (Quiet /\ pc = "phase_start") => ENABLED PhaseStart
         /\ (Quiet /\ pc = "turn_info") => ENABLED TurnInfoEvent
         /\ (Quiet /\ pc = "tp_emit") => ENABLED TpEmit
         /\ (Quiet /\ lat.pc = "emit_meta") => ENABLED LatEmitMeta
         /\ (Quiet /\ lat.pc = "emit") => ENABLED LatEmit
         /\ (pc # "new" /\ result # "Err") => result' # "Err"
         /\ (pc \notin {"new", "returned"} /\ pc' = "returned") =>
                (result' = "Ok" /\ phaseLog' = Phases)]_vars

\* C15, its case: run() has returned Ok after all four phases, the receiver
\* having been dropped before the first phase was announced.
C15_Witness ==
    /\ ~rxAlive
    /\ result = "Ok"
    /\ phaseLog = Phases
    /\ evq = 0
    /\ tput # None /\ lat.sent > 0

\* C16: with the event channel full and its consumer alive, a producer at a
\* send (the prober, the sampler, the orchestrator) goes on at once, dropping
\* the event; none of them waits for capacity.
C16_FullChannelDrops ==
    (rxAlive /\ evq >= EvCap) =>
        /\ lat.pc = "emit" => ENABLED LatEmit
        /\ lat.pc = "emit_meta" => ENABLED LatEmitMeta
        /\ pc = "tp_emit" => ENABLED TpEmit
        /\ pc = "phase_start" => ENABLED PhaseStart
        /\ pc = "turn_info" => ENABLED TurnInfoEvent

\* C17: whenever run() has returned after spawning the control listener, by
\* its normal end or by an early error return, the listener has been aborted
\* or has exited; it is not left waiting on the control channel.
C17_ListenerEndsWithRun ==
    (pc = "returned" /\ listener # "unspawned") =>
        listener \in {"aborted", "exited"}

\* C18: in the experimental mode the STUN loss probe runs after the upload
\* phase has ended and before the Summary phase is announced.
C18_StunBeforeSummary ==
    (pc = "stun" \/ stunSent > 0) =>
        /\ "Upload" \in Range(phaseLog)
        /\ "Summary" \notin Range(phaseLog)

\* C19: when run_udp_like_loss_probe completes, sent is 50 whatever the
\* attempts came to, and received counts exactly the attempts whose recv
\* returned an accepted reply, so received <= 50.
C19_FiftyAttempts ==
    [][/\ udp'.pc = "done" =>
            (/\ stunSent' = StunAttempts
             /\ udp'.summary[1].sent = StunAttempts
             /\ udp'.summary[1].received = udp'.received
             /\ udp'.received = Len(udp'.samples))
       /\ stunSent' \in {stunSent, stunSent + 1}
       /\ stunSent' = stunSent + 1 => (udp.pc = "top" /\ udp'.pc = "recv")
       /\ udp'.received <= stunSent' /\ stunSent' <= StunAttempts
       /\ udp'.received # udp.received =>
            (/\ udp'.received = udp.received + 1
             /\ udp.pc = "recv" /\ udp.inbox # <<>>
             /\ is_stun_binding_response(Head(udp.inbox), Txid))
       /\ (udp.pc = "recv" /\ udp'.pc = "sleep") =>
            (udp'.ok <=> udp'.received = udp.received + 1)]_vars

\* C19, its case: the probe has completed after attempts of every outcome:
\* some answered, some not, a datagram left in the socket's queue.
C19_Witness ==
    /\ udp.pc = "done"
    /\ stunSent = StunAttempts
    /\ udp.received > 0 /\ udp.received < StunAttempts
    /\ udp.inbox # <<>>

\* C20: an attempt whose Binding Success Response arrives within 600 ms of
\* its request is counted as received, whatever else arrives on the socket.
C20_ReplyWithinWindowCounts ==
    (udp.pc = "sleep" /\ udp.replied) => udp.ok

\* C21: the datagram recv returns is taken for the reply of the attempt
\* exactly when it has at least 20 bytes, starts with 0x01 0x01, carries the
\* magic cookie in bytes 4..8 and the attempt's transaction id in bytes 8..20;
\* after any other datagram received is unchanged and the attempt is a loss.
C21_Accepted(buf) ==
    /\ Len(buf) >= 20
    /\ buf[1] = 1 /\ buf[2] = 1
    /\ \A i \in 1..4 : buf[4 + i] = MagicCookie[i]
    /\ \A i \in 1..12 : buf[8 + i] = Txid[i]

C21_AcceptedIffBindingResponse ==
    [][(udp.pc = "recv" /\ udp'.pc = "sleep" /\ udp.inbox # <<>>) =>
         LET buf == Head(udp.inbox) IN
         /\ udp'.buf = buf
         /\ C21_Accepted(buf) =>
              (/\ udp'.received = udp.received + 1
               /\ Len(udp'.samples) = Len(udp.samples) + 1
               /\ udp'.ok)
         /\ ~C21_Accepted(buf) =>
              (/\ udp'.received = udp.received
               /\ udp'.samples = udp.samples
               /\ ~udp'.ok
               /\ stunSent' = stunSent)]_vars

\* a well-formed success response with another transaction id was received
\* and the attempt is a loss
C21_Witness ==
    /\ udp.pc = "sleep" /\ udp.buf = Stale
    /\ ~udp.ok /\ udp.received = 0 /\ stunSent = 1

\* C22: the packet build_icmp_packet returns has 64 bytes, carries the
\* identifier and the sequence number, and the ones'-complement sum of its 32
\* big-endian words with the carries folded is 0xFFFF: its checksum is 0.
C22_WordAt(packet, k) == packet[2 * k - 1] * 256 + packet[2 * k]
RECURSIVE C22_SumTo(_, _)
C22_SumTo(packet, k) ==
    IF k = 0 THEN 0 ELSE C22_WordAt(packet, k) + C22_SumTo(packet, k - 1)

C22_ChecksumVerifies ==
    (pc = "icmp" /\ tr.pc = "built") =>
        /\ Len(tr.packet) = 64
        /\ \A i \in 1..64 : tr.packet[i] \in 0..255
        /\ C22_WordAt(tr.packet, 1) = EchoRequest * 256
        /\ C22_WordAt(tr.packet, 3) = tr.id
        /\ C22_WordAt(tr.packet, 4) = tr.seq
        /\ C22_SumTo(tr.packet, 32) > 0
        /\ C22_SumTo(tr.packet, 32) % 65535 = 0
        /\ FoldCarries(C22_SumTo(tr.packet, 32)) = 65535
        /\ calculate_icmp_checksum(tr.packet) = 0

\* a packet whose word sum needed its carries folded, one with checksum
\* field 0 (the words without it already sum to 0xFFFF)
C22_Witness ==
    /\ pc = "icmp" /\ tr.pc = "built"
    /\ tr.id = 237 /\ tr.seq = 0
    /\ tr.packet[3] = 0 /\ tr.packet[4] = 0
    /\ C22_SumTo(tr.packet, 32) >= 65536

\* the destination itself answered a probe of this TTL
DestinationAnswers(d, outs) ==
    \E n \in 1..PROBES_PER_HOP :
        outs[n].kind = "packet" /\ outs[n].mine /\ outs[n].from = ResolvedIp(d)
\* no probe of this TTL received a packet
NoPacket(outs) == \A n \in 1..PROBES_PER_HOP : outs[n].kind # "packet"
RawWalkReturned == tr.path = "icmp" /\ tr.pc = "done" /\ tr.status = "Ok"

\* C23: when the raw walk returns, and the destination first answered at TTL
\* k, the events are those of hops 1..k, the summary has these k hops and
\* completed = true, and no TTL above k was probed; when the destination did
\* not answer, there are max_hops hops and completed = false.
C23_HopsUpToDestination ==
    RawWalkReturned =>
        LET ks == {k \in 1..Len(tr.obs) :
                     DestinationAnswers(tr.destination, tr.obs[k])}
            n == IF ks = {} THEN tr.max_hops
                 ELSE CHOOSE k \in ks : \A j \in ks : k <= j
        IN  /\ tr.events = [i \in 1..n |-> i]
            /\ Len(tr.summary[1].hops) = n
            /\ \A i \in 1..n : tr.summary[1].hops[i].hop_number = i
            /\ tr.summary[1].completed = (ks # {})
            /\ Len(tr.obs) = n

\* C24: in the raw walk the hop of a TTL whose probes received nothing is a
\* timeout without address and round-trip time, and a hop is a timeout only
\* if it has neither.
C24_SilentHopIsTimeout ==
    (tr.path = "icmp" /\ tr.pc \in {"icmp_ttl", "icmp_ret", "done"}) =>
        \A i \in 1..Len(tr.hops) :
            /\ NoPacket(tr.obs[i]) =>
                 (/\ tr.hops[i].timeout
                  /\ tr.hops[i].ip_address = None
                  /\ tr.hops[i].rtt_ms = <<>>)
            /\ tr.hops[i].timeout =>
                 (tr.hops[i].ip_address = None /\ tr.hops[i].rtt_ms = <<>>)

C26_SameSummaryOnBothPaths ==
    RawWalkReturned =>
        tr.summary[1] =
            SystemSummary(tr.destination,
                          ParsedHops(CommandOutput(tr.destination,
                                                   tr.max_hops, tr.obs)))

\* C27: on both paths a TTL is probed only after the events of all earlier
\* hops have been sent.
C27_HopEventBeforeNextProbe ==
    [][Len(tr'.obs) = Len(tr.obs) + 1 => tr.emitted = Len(tr.obs)]_vars

\* run() has returned an error and has done nothing else: no event, no
\* listener, no worker, no prober, no phase
FailedFirst ==
    /\ pc \in {"new", "returned"}
    /\ pc = "returned" => result = "Err"
    /\ evq = 0 /\ phaseLog = <<>> /\ meta = "unknown"
    /\ listener = "unspawned" /\ wk = NoWorkers /\ lat = NoProber

\* C28 as stated: with an invalid base URL, an interface or a source IP that
\* cannot be used, or a certificate that cannot be read or parsed, run()
\* returns an error before anything else happens.
C28_BadConfigFailsFirst ==
    (\/ cfg.base_url = "invalid"
     \/ cfg.interface = "missing"
     \/ cfg.source_ip = "malformed"
     \/ cfg.certificate_path \in {"bad_extension", "no_extension",
                                  "unreadable", "unparsable"})
    => FailedFirst

\* C28, amended: the source IP is looked at only when no interface is given.
\* With an invalid base URL, an interface without address, a source IP that
\* does not parse and no interface, or a certificate that cannot be read or
\* parsed, run() returns an error before anything else happens; and run()
\* gets to its first event only with a configuration that has none of these.
C28_RejectedConfigFailsFirst ==
    /\ (\/ cfg.base_url = "invalid"
        \/ cfg.interface = "missing"
        \/ cfg.interface = "none" /\ cfg.source_ip = "malformed"
        \/ cfg.certificate_path \in {"bad_extension", "no_extension",
                                     "unreadable", "unparsable"})
       => FailedFirst
    /\ result = "Err" => FailedFirst

\* run() has returned the error of a certificate that cannot be read
C28_Witness ==
    /\ pc = "returned" /\ result = "Err"
    /\ cfg = [DefaultCfg EXCEPT !.certificate_path = "unreadable"]
    /\ evq = 0 /\ phaseLog = <<>> /\ listener = "unspawned"

\* C29: metadata resolved at the start is announced before anything else.
\* Until run() has its metadata no event is sent; while resolved metadata
\* waits for its MetaInfo event there is no PhaseStarted event, no prober, no
\* worker and no tick; and the wait ends only by sending the MetaInfo event.
C29_MetaInfoFirst ==
    [][/\ meta \in {"unknown", "resolved"} =>
            (/\ evq = 0 /\ phaseLog = <<>>
             /\ lat = NoProber /\ wk = NoWorkers /\ samp = NoSampler)
       /\ (meta = "resolved" /\ meta' # "resolved") =>
            (/\ pc = "meta_emit" /\ pc' = "spawn"
             /\ CanSend
             /\ evq' = IF rxAlive THEN evq + 1 ELSE evq
             /\ phaseLog' = <<>>
             /\ lat' = NoProber /\ wk' = NoWorkers /\ samp' = NoSampler)
       /\ phaseLog' # phaseLog => meta = "settled"]_vars

\* the MetaInfo event is in the channel and no phase has been started
C29_Witness ==
    /\ pc = "spawn" /\ meta = "settled"
    /\ rxAlive /\ evq = 1
    /\ phaseLog = <<>> /\ lat = NoProber

\* C30: once cancel is set no throughput worker starts another request,
\* whether its phase began before or after the cancel.
C30_NoRequestAfterCancel ==
    [][cancel => InFlight(wk') <= InFlight(wk)]_vars

\* the chunk sizes a worker of the phase may add to the counter
PhaseChunkLens(p) ==
    IF p = "Download" THEN ChunkLens
    ELSE {UploadChunkLen(k) : k \in 1..UploadChunks}

\* the totals that n additions can make
RECURSIVE Sums(_, _)
Sums(n, lens) ==
    IF n = 0 THEN {0} ELSE {t + len : t \in Sums(n - 1, lens), len \in lens}

\* C31: however the workers interleave, the shared byte counter is the sum
\* of the amounts added to it so far (no addition is lost), so it never
\* decreases; the bytes_total of successive ticks of a phase is
\* non-decreasing and the byte gain of a tick, hence bps_instant, is not
\* negative.
C31_CounterIsSumOfAdds ==
    /\ total \in Sums(adds, PhaseChunkLens(phase))
    /\ \A i \in 1..(Len(samp.samples) - 1) :
          samp.samples[i][2] <= samp.samples[i + 1][2]
    /\ samp.last_bytes <= total
    /\ samp.tick.dbytes >= 0

\* two ticks of one phase, the second carrying more bytes than the first,
\* after two additions made while both workers had a request in flight
C31_Witness ==
    /\ samp.ticks = 2 /\ adds = 2
    /\ samp.samples[1][2] > 0
    /\ samp.samples[2][2] > samp.samples[1][2]
    /\ samp.tick.dbytes = samp.samples[2][2] - samp.samples[1][2]
    /\ InFlight(wk) = Concurrency
\* the bytes counted for a body of which `left` chunks are still to be produced
RECURSIVE Produced(_, _)
Produced(bytes_per_req, left) ==
    IF left >= BodyChunks(bytes_per_req) THEN 0
    ELSE Produced(bytes_per_req, left + 1) + BodyChunkLen(bytes_per_req, left + 1)

\* one worker has moved from position a to position b
Moved(a, b) == wk' = Move(wk, a, b) /\ a # b

\* C32: a fully produced upload body adds exactly upload_bytes_per_req to the
\* shared counter: each chunk adds its own length at the step that produces
\* it, the lengths of the chunks of a body add up to upload_bytes_per_req,
\* and the return of the request, acknowledged or failed, adds nothing.
C32_BodyCountedAsProduced ==
    [][phase = "Upload" =>
         /\ Produced(cfg.upload_bytes_per_req, 0) = cfg.upload_bytes_per_req
         /\ \A k \in 1..UploadChunks :
               Moved(WkAt("body", k), WkAt("body", k - 1))
                   => total' - total = Produced(cfg.upload_bytes_per_req, k - 1)
                                        - Produced(cfg.upload_bytes_per_req, k)
         /\ \A k \in 0..UploadChunks :
               Moved(WkAt("body", k), WkAt("loop", 0)) => total' = total]_vars

\* a body of one full chunk and a tail has been produced in full by one
\* worker, whose request has not returned yet
C32_Witness ==
    /\ phase = "Upload"
    /\ full(cfg.upload_bytes_per_req) > 0 /\ tail(cfg.upload_bytes_per_req) > 0
    /\ wk[WkAt("body", 0)] = 1
    /\ adds = UploadChunks
    /\ total = cfg.upload_bytes_per_req
\* no packet received for this TTL answers one of the walk's own probes
NoValidReply(outs) ==
    \A n \in 1..PROBES_PER_HOP : outs[n].kind = "packet" => ~outs[n].mine

\* C33: in the raw walk a TTL whose probes received only packets that are not
\* replies to them gives the hop that timeouts give: no round-trip time, no
\* address, and completed is not set.
C33_InvalidReplyIsTimeout ==
    (tr.path = "icmp" /\ tr.pc = "icmp_emit"
        /\ NoValidReply(tr.obs[Len(tr.obs)])) =>
        /\ tr.hop[1].rtt_ms = <<>>
        /\ tr.hop[1].ip_address = None
        /\ ~tr.completed
\* C34: paused and cancel change only in a step of the control listener
\* that handles a received message, and take the values this message asks
\* for; the stop flag of a phase is false when the phase creates it and is
\* set only by the sampler of the phase, in the step that leaves its loop.
C34_FlagsHaveOneWriter ==
    [][/\ (paused' # paused \/ cancel' # cancel) =>
             /\ listener = "running" /\ ctl # <<>>
             /\ ctl' # ctl
             /\ paused' = HandleControl(Head(ctl), paused, cancel)[1]
             /\ cancel' = HandleControl(Head(ctl), paused, cancel)[2]
       /\ (stop' # stop) =>
             IF stop' THEN pc \in {"tp_loop", "tp_wait"} /\ pc' = "tp_join"
             ELSE pc = "phase_run" /\ pc' = "tp_loop"]_vars

\* the listener has ended because the control sender was closed, with the
\* pause flag a message had set and without cancel; the sampler has set stop
\* and a worker has ended
C34_Witness ==
    /\ listener = "exited" /\ ~ctlOpen
    /\ paused /\ ~cancel
    /\ stop /\ pc = "tp_join"
    /\ wk[WkAt("done", 0)] > 0
\* the text of a URL has a port: a colon followed by a digit
CarriesPort(u) == \E i \in 1..(Len(u) - 1) : u[i] = ":" /\ IsDigit(u[i + 1])
\* the positions of the URLs of a list that start with the prefix
PositionsWith(urls, prefix) ==
    {i \in 1..Len(urls) : SubSeq(urls[i], 1, Len(prefix)) = prefix}

\* C35: the target is the first stun: URL of the list when there is one,
\* else the first turn: URL, else none; without a target the probe fails
\* and no datagram is sent; the port of a target that carries none is 3478.
C35_StunFirstThenTurn ==
    udp.pc # "pick" =>
        LET stuns == PositionsWith(udp.urls, StunPrefix)
            turns == PositionsWith(udp.urls, TurnPrefix)
        IN  /\ stuns # {} =>
                  \E i \in stuns : /\ udp.target = Some(udp.urls[i])
                                    /\ \A j \in stuns : i <= j
            /\ (stuns = {} /\ turns # {}) =>
                  \E i \in turns : /\ udp.target = Some(udp.urls[i])
                                    /\ \A j \in turns : i <= j
            /\ (stuns = {} /\ turns = {}) =>
                  (udp.target = None /\ udp.pc = "failed" /\ stunSent = 0)
            /\ (udp.addr # None /\ ~CarriesPort(udp.target[1])) =>
                  udp.addr[1][2] = DEFAULT_STUN_PORT

\* the first datagram has been sent to port 3478 of the host of a stun: URL
\* without port that stands last in the list, after a turn: URL with a port
C35_Witness ==
    /\ stunSent = 1
    /\ Len(udp.urls) = MaxUrls
    /\ starts_with(udp.urls[1], TurnPrefix) /\ CarriesPort(udp.urls[1])
    /\ udp.target = Some(udp.urls[MaxUrls])
    /\ starts_with(udp.urls[MaxUrls], StunPrefix)
    /\ udp.addr = Some(<<(<<"h">>), DEFAULT_STUN_PORT>>)
\* the LatencySample events the prober has sent
SamplesSent(l) == l.evOk + l.evFail

\* C36: a LatencySample or a ThroughputTick of a throughput phase is sent
\* while the PhaseStarted event of that phase is the last one sent: none
\* follows the PhaseStarted of a later phase.
C36_EventsWithinTheirPhase ==
    [][/\ (SamplesSent(lat') > SamplesSent(lat)
             /\ lat.phase \in {"Download", "Upload"}) =>
               (phaseLog # <<>> /\ phaseLog[Len(phaseLog)] = lat.phase)
       /\ (samp'.ticks > samp.ticks) =>
               (phaseLog # <<>> /\ phaseLog[Len(phaseLog)] = samp.phase)]_vars

\* the Summary phase has been announced after the upload phase had sent a
\* latency sample and a tick
C36_Witness ==
    /\ phaseLog = Phases
    /\ lat.phase = "Upload" /\ SamplesSent(lat) > 0 /\ lat.pc = "done"
    /\ samp.phase = "Upload" /\ samp.ticks > 0
MaxPasses(duration, interval) == (duration + interval - 1) \div interval
Elapsed(start) == now - start

\* C38: the clock of a phase runs on from the start of the phase whether or
\* not the run is paused; a pass of the prober's loop or of a sampling loop
\* begins only before the deadline, and at the loop head after the deadline
\* the loop ends even while paused; a pass makes one probe or one tick, so a
\* loop held in its pause wait beyond the deadline makes that one and ends,
\* and pausing never adds a probe or a tick to a phase.
C38_PauseDoesNotExtendPhase ==
    [][/\ now' >= now \/ (now' = 0 /\ pc = "phase_run")
       /\ (lat.pc = "top" /\ lat'.pc = "wait") =>
             Elapsed(lat.start) < PhaseDuration(lat.phase)
       /\ (lat.pc = "top" /\ lat' # lat
             /\ Elapsed(lat.start) >= PhaseDuration(lat.phase)) =>
             lat'.pc = "done"
       /\ (pc = "tp_loop" /\ pc' = "tp_wait") =>
             Elapsed(samp.start) < PhaseDuration(phase)
       /\ (pc = "tp_loop" /\ pc' # pc
             /\ Elapsed(samp.start) >= PhaseDuration(phase)) =>
             (pc' = "tp_join" /\ stop')
       /\ (lat'.sent > lat.sent) =>
             (lat.pc = "issue" /\ lat'.pc = "inflight"
                 /\ lat'.sent = lat.sent + 1)
       /\ (lat'.pc = "issue" /\ lat.pc # "issue") => lat.pc = "wait"
       /\ (samp'.ticks > samp.ticks) =>
             (pc = "tp_emit" /\ pc' = "tp_sleep"
                 /\ samp'.ticks = samp.ticks + 1)
       /\ (pc' = "tp_emit" /\ pc # "tp_emit") => pc = "tp_wait"
       /\ lat'.phase # "off" =>
             lat'.sent <= MaxPasses(PhaseDuration(lat'.phase), probe_interval_ms)
       /\ samp'.phase # "off" =>
             samp'.ticks <= MaxPasses(PhaseDuration(samp'.phase), SampleIntervalMs)
      ]_vars

\* the prober of the idle phase has left its pause wait after the deadline,
\* not paused and not cancelled, and makes the one probe of the pass it had
\* begun after its first probe
C38_Witness ==
    /\ ~paused /\ ~cancel
    /\ lat.phase = "IdleLatency" /\ lat.pc = "issue"
    /\ Elapsed(lat.start) >= PhaseDuration(lat.phase)
    /\ lat.sent = 1
\* run() or its latency task is at a send into the event channel
AtSend ==
    \/ pc \in {"meta_emit", "phase_start", "turn_info", "tp_emit"}
    \/ lat.pc \in {"emit", "emit_meta"}

\* C39: while the front end awaits the engine task after the rerun key, a
\* send of the engine into the event channel does not find the channel full
\* (nothing is taken from the channel during the wait, so a send that does
\* waits for ever and the engine task never ends).
C39_RerunNeverBlocks ==
    (ui = "await" /\ AtSend) => CanSend
\* C40: within one run_traceroute call no hop number is the number of two
\* TracerouteHop events (an entry 0 of tr.events is the Info event), and the
\* fallback to the system command is taken only while no hop event has been
\* sent.
C40_EachHopOnce ==
    /\ \A i, j \in 1..Len(tr.events) :
         (i # j /\ tr.events[i] # 0) => tr.events[i] # tr.events[j]
    /\ (tr.pc = "info") => tr.events = <<>>
====
